---------------------------- MODULE Spec2Model ----------------------------
(***************************************************************************)
(* The log aggregation core of swiss-army-aws-tui: the LogsTab of          *)
(* internal/ui/logs_tab.go (per-source buffers, the bleve search index,    *)
(* the CloudWatch loading and tailing goroutines) and the tail producer    *)
(* CloudWatchLogsService.TailLogStreams of internal/aws/clients.           *)
(*                                                                         *)
(* Every critical section of LogsTab.mu is one atomic step.  A goroutine   *)
(* is a process with a program counter; `go f()` creates the process and   *)
(* the scheduler runs its steps at any later time.  A read of a field      *)
(* that the code does without the lock (lt.cloudWatchCtx in the tail       *)
(* loop) reads the value the field has at that step.                       *)
(*                                                                         *)
(* A log entry is the record [Source, Timestamp, Message]; a message and  *)
(* a filter text are sequences of bytes (small naturals).  Of the view,   *)
(* the filter text and the slice lt.filteredLogs are kept, for the part   *)
(* of a buffer's array that the slice shares: applyFilter sorts it in     *)
(* place.  The view is the sequence of the entries it shows, the status    *)
(* line is its message; the specifications that are not about them leave  *)
(* them out.                                                               *)
(*                                                                         *)
(* Spec is the whole program.  The specifications after it are the        *)
(* behaviours of Spec that are enumerated: StoreSpec is the tab without   *)
(* an AWS client (buffers, index, filter and search); the others run the  *)
(* Loading and Tailing goroutines.                                         *)
(***************************************************************************)
EXTENDS Naturals, Integers, Sequences, FiniteSets, Bags, TLC

(***************************************************************************)
(* Program constants, scaled down (the source's value is in the comment).  *)
(***************************************************************************)
\* LogsTab.maxLines, 1000 in NewLogsTab
maxLines == 2
\* DescribeLogStreams(ctx, logGroupName, 10) in loadCloudWatchLogs
DescribeLimit == 2
\* GetLogEvents(ctx, group, stream, 50, false) in loadCloudWatchLogs
LoadEventLimit == 1
\* GetLogEvents(ctx, group, stream, 10, false) in TailLogStreams
TailInitLimit == 1
\* GetLogEventsWithToken(ctx, group, stream, token, 50) in TailLogStreams
PollLimit == 1
\* make(chan clients.LogEvent, 100) in startTailing
EventsChanCap == 1
\* make(chan error, 10) in startTailing
ErrorChanCap == 1
\* entry.Message[:min(50, len(entry.Message))] in indexLogEntry
IdPrefixLen == 1
\* the number of sampleLogs of initializeAppLogs (6 in the source)
NumSampleLogs == 1

(***************************************************************************)
(* Bounds of the model.                                                    *)
(***************************************************************************)
\* clock readings time.Now() can return
MaxTime == 1
\* loadCloudWatchLogs goroutines spawned in one run
MaxLoads == 2
\* tail loops started in one run
MaxTails == 2
\* events ever written to one remote stream
MaxRemoteEvents == 2
\* events every remote stream holds at startup
InitRemoteEvents == 1
\* closures waiting in the tview update queue
MaxQueue == 1
\* indexLogEntry goroutines not yet run
MaxIndexTasks == 1
\* characters of a text given to a function of texts
MaxTextLen == 3

\* the history keeps the last HistoryWindow entries placed in a buffer
HistoryWindow == maxLines + 1

Min(a, b) == IF a < b THEN a ELSE b
Max(a, b) == IF a > b THEN a ELSE b

\* the last n elements of s: s[len(s)-n:]
LastN(s, n) == IF Len(s) <= n THEN s ELSE SubSeq(s, Len(s) - n + 1, Len(s))
\* the first n elements of s: s[:min(n, len(s))]
FirstN(s, n) == SubSeq(s, 1, Min(n, Len(s)))
Range(s) == {s[i] : i \in 1..Len(s)}

Nil == 0

(***************************************************************************)
(* The source catalog.                                                     *)
(***************************************************************************)
logSources ==
  << [Name |-> "app",        Type |-> "memory",  Enabled |-> TRUE],
     [Name |-> "aws-sdk",    Type |-> "memory",  Enabled |-> FALSE],
     [Name |-> "system",     Type |-> "file",    Enabled |-> FALSE],
     [Name |-> "cloudwatch", Type |-> "aws",     Enabled |-> TRUE],
     [Name |-> "docker",     Type |-> "command", Enabled |-> FALSE],
     [Name |-> "kubectl",    Type |-> "command", Enabled |-> FALSE] >>

\* the levels as texts: "INFO", "WARN"
INFO == <<73, 78, 70, 79>>
WARN == <<87, 65, 82, 78>>

LogEntry(source, timestamp, level, message) ==
  [Source |-> source, Timestamp |-> timestamp, Level |-> level,
   Message |-> message]

\* the messages AddApplicationLog is called with: one holds a line feed
AppMessages == {<<1>>, <<1, 10>>}
\* "Logs refreshed manually", the entry Refresh appends to the app source
RefreshMessage == <<3>>

\* the entries initializeAppLogs seeds the app source with
sampleLogs == [i \in 1..NumSampleLogs |-> LogEntry("app", i, INFO, <<4>>)]


(***************************************************************************)
(* The remote log backend.  Group "g1" owns the streams of DOMAIN remote,  *)
(* group "g2" owns none; stream s holds the events 1..remote[s]; a forward *)
(* token is the number of events before the position it marks.             *)
(***************************************************************************)
Groups == {"g1", "g2"}
AllStreams == {1, 2}

\* clients.LogEvent: event k of stream s
LogEvent(s, k) == [Message |-> <<s, k>>, Timestamp |-> k]
\* the zero value of clients.LogEvent, received from a closed channel
ZeroEvent == [Message |-> <<>>, Timestamp |-> 0]

\* GetLogEvents(..., limit, startFromHead=false): the last `limit` events
\* of the stream and the forward token behind them
GetLogEvents(count, s, limit) ==
  [events |-> [i \in 1..Min(limit, count) |->
                 LogEvent(s, count - Min(limit, count) + i)],
   nextForwardToken |-> count]

\* GetLogEventsWithToken(..., token, limit): the events after the token
GetLogEventsWithToken(count, s, token, limit) ==
  [events |-> [i \in 1..Min(limit, count - token) |-> LogEvent(s, token + i)],
   nextForwardToken |-> token + Min(limit, count - token)]

VARIABLES
  selectedSource,    \* lt.selectedSource
  logs,              \* lt.logs: source name -> sequence of entries
  filterText,        \* lt.filterInput.GetText()
  filteredLogs,      \* lt.filteredLogs: the part of a buffer's array it
                     \* shares, or its own entries
  logView,           \* lt.logView: the entries of the text last written to it
  status,            \* lt.statusText: the message last written to it, or
                     \* Unobserved
  activeLogGroup,    \* lt.activeLogGroup, "" when none
  awsClient,         \* lt.awsClient # nil
  cloudWatchCtx,     \* lt.cloudWatchCtx: a context id, Nil before the first tail
  cloudWatchCancel,  \* lt.cloudWatchCancel: the context it cancels, or Nil
  tailingActive,     \* lt.tailingActive
  ctxDone,           \* the cancelled contexts
  searchIndex,       \* lt.searchIndex: [open, docs: id -> entry]
  indexTasks,        \* the bag of entries of the running indexLogEntry goroutines
  mu,                \* the writer of lt.mu across steps: "free" or "search"
  search,            \* the performSearch call of the UI goroutine
  uiQueue,           \* closures queued with app.QueueUpdateDraw
  loads,             \* the loadCloudWatchLogs goroutines
  tails,             \* the tail loops: consumer goroutine and TailLogStreams
  remote,            \* stream -> number of events written to it
  clock,             \* the last reading of time.Now()
  panicked,          \* the process died of a nil dereference
  appended,          \* history: per source, the last HistoryWindow entries
                     \* placed in the buffer since an operation other than
                     \* addLogEntry last wrote it; the empty function when
                     \* no history is kept
  call               \* the last call of an operation that returns a value or
                     \* writes a file: its arguments, its result, its output

\* The outputs of the tab are the status line, the text of the view and the
\* entries a slice holds apart from the buffers, which only the view shows:
\* the program reads none of them back into its buffers, its index or its
\* goroutines.  A specification either follows them or leaves them out; it
\* leaves them out with the status Unobserved.
Unobserved == "<unobserved>"
Observed == status # Unobserved

vars == << selectedSource, logs, filterText, filteredLogs, logView, status,
           activeLogGroup,
           awsClient, cloudWatchCtx, cloudWatchCancel, tailingActive, ctxDone,
           searchIndex, indexTasks, mu, search, uiQueue, loads, tails, remote,
           clock, panicked, appended, call >>

\* DescribeLogStreams(ctx, group, limit): the streams of the group, the one
\* with the latest event first, at most `limit` of them
DescribeLogStreams(group, limit) ==
  LET S == IF group = "g1" THEN DOMAIN remote ELSE {}
  IN  {FirstN(p, limit) : p \in
         {q \in [1..Cardinality(S) -> S] :
            /\ \A i, j \in 1..Cardinality(S) : i # j => q[i] # q[j]
            /\ \A i \in 1..(Cardinality(S) - 1) : remote[q[i]] >= remote[q[i + 1]]}}

(***************************************************************************)
(* LogStore: the per-source buffers.                                       *)
(***************************************************************************)
\* m[sourceName], the empty slice for a missing key
BufferIn(m, sourceName) ==
  IF sourceName \in DOMAIN m THEN m[sourceName] ELSE <<>>

\* lt.logs[sourceName]
Buffer(sourceName) == BufferIn(logs, sourceName)

\* lt.logs[sourceName] = entries
SetBuffer(m, sourceName, entries) ==
  [k \in DOMAIN m \cup {sourceName} |-> IF k = sourceName THEN entries ELSE m[k]]

\* a buffer that is never trimmed
TrimNothing(entries) == entries

\* addLogEntry: if len > maxLines { logs = logs[len-maxLines:] }
TrimToMaxLines(entries) == LastN(entries, maxLines)

\* addLogEntry: lt.logs[sourceName] = append(lt.logs[sourceName], entry)
AppendEntry(entries, entry) == Append(entries, entry)

\* the entries the trim of addLogEntry cuts off the front
Evicted(entries) ==
  SubSeq(entries, 1, Len(entries) - Len(TrimToMaxLines(entries)))

History(sourceName) ==
  IF sourceName \in DOMAIN appended THEN appended[sourceName] ELSE <<>>

\* the history after addLogEntry appended `entry`
TrackAppend(sourceName, entry) ==
  IF DOMAIN appended = {} THEN appended
  ELSE SetBuffer(appended, sourceName,
                 LastN(Append(History(sourceName), entry), HistoryWindow))

\* the history after another operation left the buffers m: the history of
\* a buffer it wrote starts again from the content it wrote
Retrack(m) ==
  IF DOMAIN appended = {} THEN appended
  ELSE [k \in DOMAIN m |->
          IF k \in DOMAIN logs /\ k \in DOMAIN appended /\ m[k] = logs[k]
          THEN appended[k]
          ELSE LastN(m[k], HistoryWindow)]

(***************************************************************************)
(* The view: lt.filteredLogs and the filter text.  A Go slice that was     *)
(* assigned from a buffer shares the buffer's array, and sort.Slice sorts  *)
(* that array in place.                                                    *)
(***************************************************************************)
\* a slice that shares the array of buffer src: the entries `dead` that a
\* trim has cut off that buffer since, then the first n entries of the
\* buffer.  Owned(entries) is a slice that shares nothing with a buffer, or
\* a part that is in ascending order already (sorting it again changes
\* nothing): it holds its entries itself.  NoRef is the empty slice.
Owned(entries) ==
  [src |-> "", dead |-> <<>>, n |-> 0,
   own |-> IF Observed THEN entries ELSE <<>>]
NoRef == [src |-> "", dead |-> <<>>, n |-> 0, own |-> <<>>]
Alias(sourceName, n) ==
  [src |-> sourceName, dead |-> <<>>, n |-> n, own |-> <<>>]

\* a slice that shares the array of a buffer
Shares(ref) == ref.src # ""

\* the part of the array of buffer ref.src the slice covers
Region(m, ref) == ref.dead \o FirstN(BufferIn(m, ref.src), ref.n)

\* the entries of the slice
Entries(m, ref) == IF Shares(ref) THEN Region(m, ref) ELSE ref.own

Ascending(entries) ==
  \A i \in 1..(Len(entries) - 1) :
    entries[i].Timestamp <= entries[i + 1].Timestamp

Settled(m, ref) ==
  IF Shares(ref) /\ (ref.n = 0 \/ Ascending(Region(m, ref)))
  THEN Owned(Region(m, ref))
  ELSE ref

\* the buffer of m is assigned a new array, or append moved it to one: the
\* slice keeps the old array
Detach(m, ref, sourceName) ==
  IF ref.src = sourceName THEN Owned(Region(m, ref)) ELSE ref

\* logs = logs[len-maxLines:]: the slice keeps the entries that were cut off
Trimmed(m, ref, sourceName, evicted) ==
  IF ref.src # sourceName THEN ref
  ELSE Settled(m, [ref EXCEPT !.dead = @ \o FirstN(evicted, ref.n),
                              !.n = @ - Min(@, Len(evicted))])

IsPermutation(a, b) ==
  /\ Len(a) = Len(b)
  /\ \A x \in Range(a) \cup Range(b) :
       Cardinality({i \in 1..Len(a) : a[i] = x})
         = Cardinality({i \in 1..Len(b) : b[i] = x})

\* sort.Slice(filtered, Timestamp.Before): oldest first, ties in any order
SortedOldestFirst(entries) ==
  {p \in [1..Len(entries) -> Range(entries)] :
     IsPermutation(p, entries) /\ Ascending(p)}

\* unicode.IsSpace, for the characters up to U+00FF
WhiteSpace == {9, 10, 11, 12, 13, 32, 133, 160}

\* strings.TrimSpace
RECURSIVE TrimLeft(_)
TrimLeft(s) ==
  IF s # <<>> /\ Head(s) \in WhiteSpace THEN TrimLeft(Tail(s)) ELSE s
Reverse(s) == [i \in 1..Len(s) |-> s[Len(s) + 1 - i]]
TrimSpace(s) == Reverse(TrimLeft(Reverse(TrimLeft(s))))

\* onFilterChanged: strings.Contains(text, " "), "\"" or "*"
IsQueryString(text) == \E i \in 1..Len(text) : text[i] \in {32, 34, 42}

\* the texts typed into the filter field: "", " ", a term, a term and "*"
FilterTexts == {<<>>, <<32>>, <<1>>, <<1, 42>>}

\* the slice o after sort.Slice left the entries p in the slice by: the
\* entries cut off the buffer lie next to each other in the array
Resorted(m, o, by, p) ==
  IF o.src # by.src \/ ~Shares(by) THEN o
  ELSE LET nd == SubSeq(p, 1, Len(by.dead))
           d  == IF Len(o.dead) <= Len(nd) THEN LastN(nd, Len(o.dead))
                 ELSE FirstN(o.dead, Len(o.dead) - Len(nd)) \o nd
       IN  Settled(m, [o EXCEPT !.dead = d])

\* the slices held by the elements of c (the queued closures, the loads)
\* after the buffer of sourceName in m was assigned a new array
DetachAll(m, c, sourceName) ==
  [i \in DOMAIN c |-> [c[i] EXCEPT !.ref = Detach(m, @, sourceName)]]

\* the slices held by the elements of c after sort.Slice left the entries p
\* in the slice by
ResortedAll(m, c, by, p) ==
  [i \in DOMAIN c |-> [c[i] EXCEPT !.ref = Resorted(m, @, by, p)]]

\* the slices held by the elements of c after the trim of addLogEntry
TrimmedAll(m, c, sourceName, evicted) ==
  [i \in DOMAIN c |-> [c[i] EXCEPT !.ref = Trimmed(m, @, sourceName, evicted)]]

\* strings.ToLower, byte by byte
ToLower(s) == [i \in 1..Len(s) |-> IF s[i] \in 65..90 THEN s[i] + 32 ELSE s[i]]

\* strings.Contains(s, substr)
Contains(s, substr) ==
  \E i \in 0..(Len(s) - Len(substr)) : SubSeq(s, i + 1, i + Len(substr)) = substr

\* the name of a source as a text: "app", "cloudwatch"
SourceText(sourceName) ==
  CASE sourceName = "app" -> <<97, 112, 112>>
    [] sourceName = "cloudwatch" ->
         <<99, 108, 111, 117, 100, 119, 97, 116, 99, 104>>
    [] OTHER -> <<>>

\* applyFilter: the entry passes the filter text (trimmed and lowered) when
\* its message, its level or its source holds it
Matches(entry, text) ==
  \/ Contains(ToLower(entry.Message), ToLower(TrimSpace(text)))
  \/ Contains(ToLower(entry.Level), ToLower(TrimSpace(text)))
  \/ Contains(ToLower(SourceText(entry.Source)), ToLower(TrimSpace(text)))

\* the entries of a slice that pass the filter text, in the order of the slice
Matching(entries, text) ==
  SelectSeq(entries, LAMBDA entry : Matches(entry, text))

\* a slice that is left in the order of arrival
ArrivalOrder(entries) == {entries}

\* sort.Slice of a slice that shares no array with a buffer
SortOldestFirst(entries) ==
  IF Ascending(entries) THEN {entries} ELSE SortedOldestFirst(entries)

\* applyFilter: the count annotation of the title of the view, " Logs (k) "
\* or " Logs (k of n) ", for k entries shown of the n of lt.filteredLogs
Title(shown, total) ==
  IF shown # total THEN << shown, total >> ELSE << shown >>

\* the outcome of applyFilter that sorts nothing in a buffer: lt.filteredLogs
\* is ref afterwards and the view shows the entries view
Shown(m, ref, view) ==
  [logs |-> m, by |-> NoRef, p |-> <<>>, ref |-> ref,
   view |-> IF Observed THEN view ELSE <<>>]

\* applyFilter with lt.filteredLogs = ref: with an empty filter text the
\* slice itself is sorted, else a copy of its matching entries, and the
\* sorted entries are written to the view.  The outcomes: the buffers, the
\* slice that was sorted in a buffer and its new content, lt.filteredLogs
\* and the view.
applyFilter(m, ref, text) ==
  IF TrimSpace(text) # <<>>
  THEN {Shown(m, Settled(m, ref), view) :
          view \in SortOldestFirst(Matching(Entries(m, ref), text))}
  ELSE IF ~Shares(Settled(m, ref))
       THEN {Shown(m, Owned(p), p) : p \in SortOldestFirst(Entries(m, ref))}
       ELSE {[logs |-> SetBuffer(m, ref.src,
                         SubSeq(p, Len(ref.dead) + 1, Len(p))
                           \o SubSeq(m[ref.src], ref.n + 1, Len(m[ref.src]))),
              by |-> ref,
              p |-> p,
              ref |-> Owned(p),
              view |-> IF Observed THEN p ELSE <<>>] : p \in SortedOldestFirst(Region(m, ref))}

(***************************************************************************)
(* SearchIndex.                                                            *)
(***************************************************************************)
\* an id that numbers the documents in the order they are indexed
SerialId(entry) ==
  << entry.Source, Cardinality(DOMAIN searchIndex.docs), entry.Message >>

\* indexLogEntry: fmt.Sprintf("%s_%d_%s", Source, UnixNano, Message[:min(50,len)])
EntryId(entry) ==
  << entry.Source, entry.Timestamp, FirstN(entry.Message, IdPrefixLen) >>

\* index.Index(id, entry): a document with the same id is overwritten
IndexDoc(docs, entry) ==
  [k \in DOMAIN docs \cup {EntryId(entry)} |->
     IF k = EntryId(entry) THEN entry ELSE docs[k]]

\* the entries the index holds a document of
Indexed == {searchIndex.docs[k] : k \in DOMAIN searchIndex.docs}

\* the entries held by some source buffer
Stored == UNION {Range(logs[k]) : k \in DOMAIN logs}

\* index.Search(request) of a query string: the ids of the documents whose
\* message holds one of its terms
SearchHits(docs, queryStr) ==
  {k \in DOMAIN docs :
     \E i \in 1..Len(queryStr) :
       queryStr[i] \notin {32, 34, 42} /\ queryStr[i] \in Range(docs[k].Message)}

IdleSearch == [pc |-> "idle", hits |-> {}]

(***************************************************************************)
(* The goroutines.                                                         *)
(***************************************************************************)
\* the messages of the status line, lt.statusText
StatusShowing == "Showing %d log entries from %s"
StatusNoGroupOrClient == "No active log group or AWS client available"
StatusLambda == "Lambda %s - CloudWatch log group: %s"
StatusCleared == "Logs cleared"
StatusRefreshed == "Logs refreshed"
StatusNoIndex == "Search index not available"
StatusFound == "Found %d results for '%s'"
StatusNoClient == "No AWS client available"
StatusLoading == "Loading CloudWatch logs from %s..."
StatusListFailed == "Failed to get log streams: %s"
StatusNoStreams == "No log streams found in %s"
StatusLoaded == "Loaded %d CloudWatch log entries from %d streams"
\* fmt.Sprintf("Tailing error: %s", err.Error())
StatusTailingError(err) == "Tailing error: " \o err

NoLoad ==
  [pc |-> "none", group |-> "", streams |-> <<>>, events |-> <<>>,
   ref |-> NoRef]

NoTail ==
  [cpc |-> "none", group |-> "", streams |-> <<>>,
   ppc |-> "none", pctx |-> Nil, i |-> 0, out |-> <<>>, next |-> 0,
   tokens |-> <<>>, eventsChan |-> <<>>, errorChan |-> <<>>, closed |-> FALSE]

\* the goroutines one run has room for
LoadIds == DOMAIN loads
TailIds == DOMAIN tails

FreeLoads == {l \in LoadIds : loads[l].pc = "none"}
FreeTails == {t \in TailIds : tails[t].cpc = "none"}

NoEntry == LogEntry("", 0, <<>>, <<>>)

\* a queued closure: func() { lt.addLogEntry("cloudwatch", entry) }
AddClosure(entry, t) ==
  [kind |-> "add", entry |-> entry, msg |-> "", err |-> "", tail |-> t,
   ref |-> NoRef]
\* a queued closure: func() { lt.updateStatus("Tailing error: "+err.Error()) }
StatusClosure(err, t) ==
  [kind |-> "status", entry |-> NoEntry, msg |-> StatusTailingError(err),
   err |-> err, tail |-> t, ref |-> NoRef]
\* a queued closure of loadCloudWatchLogs: func() { lt.updateStatus(msg) }
ReportClosure(msg) ==
  [kind |-> "status", entry |-> NoEntry, msg |-> msg, err |-> "", tail |-> Nil,
   ref |-> NoRef]
\* a queued closure: func() { lt.updateLogDisplay(logEntries) }
DisplayClosure(ref) ==
  [kind |-> "display", entry |-> NoEntry, msg |-> "", err |-> "", tail |-> Nil,
   ref |-> ref]

\* no operation that returns a value was called yet
NoCall == [op |-> "none"]

\* NewLogsTab: the index may fail to initialise; loadLogSources selects the
\* first enabled source, whose buffer is still missing, and shows its zero
\* entries; initializeAppLogs then seeds the app source
NewLogsTab ==
  /\ selectedSource = "app"
  /\ logs = SetBuffer(<<>>, "app", sampleLogs)
  /\ filterText = <<>>
  /\ filteredLogs = NoRef
  /\ logView = <<>>
  /\ status \in {Unobserved, StatusShowing}
  /\ activeLogGroup = ""
  /\ awsClient = FALSE
  /\ cloudWatchCtx = Nil
  /\ cloudWatchCancel = Nil
  /\ tailingActive = FALSE
  /\ ctxDone = {}
  /\ searchIndex \in {[open |-> o, docs |-> <<>>] : o \in BOOLEAN}
  /\ indexTasks = EmptyBag
  /\ mu = "free"
  /\ search = IdleSearch
  /\ uiQueue = <<>>
  /\ loads \in {[l \in 1..n |-> NoLoad] : n \in 1..MaxLoads}
  /\ tails \in {[t \in 1..n |-> NoTail] : n \in 1..MaxTails}
  /\ remote \in {[s \in S |-> InitRemoteEvents] : S \in {{1}, AllStreams}}
  /\ clock = NumSampleLogs
  /\ panicked = FALSE
  /\ appended \in {<<>>, SetBuffer(<<>>, "app", sampleLogs)}

Init == NewLogsTab /\ call = NoCall

tailVars == << cloudWatchCtx, cloudWatchCancel, tailingActive, ctxDone, tails >>
\* the fields of the tab and its goroutines
tabVars ==
  << selectedSource, logs, filterText, filteredLogs, logView, status,
     activeLogGroup, awsClient, cloudWatchCtx, cloudWatchCancel, tailingActive,
     ctxDone, searchIndex, indexTasks, mu, search, uiQueue, loads, tails,
     remote, clock, panicked, appended >>
storeVars == << logs, filteredLogs, uiQueue, appended, indexTasks >>
viewVars == << filterText, filteredLogs, logView, status >>

\* updateStatus(message, color): if lt.statusText == nil { return }
updateStatus(message) == status' = IF Observed THEN message ELSE status

\* time.Now(): the clock does not run backwards
Now == clock..Max(clock, MaxTime)

\* go lt.indexLogEntry(entry): with lt.searchIndex nil the goroutine returns
\* at once and is left out
SpawnIndexTask(entry) ==
  IF searchIndex.open THEN indexTasks (+) SetToBag({entry}) ELSE indexTasks

\* lt.filteredLogs = ref; lt.applyFilter() with the filter text `text`, by
\* the UI goroutine whose queue is q
Render(ref, text, q) ==
  \E r \in applyFilter(logs, ref, text) :
    /\ logs' = r.logs
    /\ filteredLogs' = r.ref
    /\ logView' = r.view
    /\ uiQueue' = ResortedAll(r.logs, q, r.by, r.p)
    /\ loads' = ResortedAll(r.logs, loads, r.by, r.p)
    /\ appended' = Retrack(r.logs)

\* updateLogDisplay(logs): lt.filteredLogs = logs; lt.applyFilter()
updateLogDisplay(ref, q) == Render(ref, filterText, q)

\* addLogEntry(sourceName, entry) run with the queue q: append (in the
\* array of the buffer, or in a new one when it is full), go indexLogEntry,
\* applyFilter if the source is the selected one, trim
addLogEntry(sourceName, entry, q) ==
  /\ mu = "free"
  /\ searchIndex.open => BagCardinality(indexTasks) < MaxIndexTasks
  /\ indexTasks' = SpawnIndexTask(entry)
  /\ appended' = TrackAppend(sourceName, entry)
  /\ \E grown \in BOOLEAN :
       LET m1 == SetBuffer(logs, sourceName,
                           AppendEntry(Buffer(sourceName), entry))
           f1 == IF grown THEN Detach(logs, filteredLogs, sourceName)
                 ELSE filteredLogs
           q1 == IF grown THEN DetachAll(logs, q, sourceName) ELSE q
           l1 == IF grown THEN DetachAll(logs, loads, sourceName) ELSE loads
       IN  /\ grown =>
                \/ filteredLogs.src = sourceName
                \/ \E i \in DOMAIN q : q[i].ref.src = sourceName
                \/ \E l \in DOMAIN loads : loads[l].ref.src = sourceName
           /\ \E r \in (IF sourceName = selectedSource
                        THEN applyFilter(m1, f1, filterText)
                        ELSE {Shown(m1, f1, logView)}) :
                LET m3 == SetBuffer(r.logs, sourceName,
                                    TrimToMaxLines(r.logs[sourceName]))
                    ev == Evicted(r.logs[sourceName])
                IN  /\ logs' = m3
                    /\ filteredLogs' = Trimmed(m3, r.ref, sourceName, ev)
                    /\ logView' = r.view
                    /\ uiQueue' =
                         TrimmedAll(m3, ResortedAll(r.logs, q1, r.by, r.p),
                                    sourceName, ev)
                    /\ loads' =
                         TrimmedAll(m3, ResortedAll(r.logs, l1, r.by, r.p),
                                    sourceName, ev)

\* AddApplicationLog(level, message, fields)
AddApplicationLog ==
  /\ ~panicked
  /\ \E message \in AppMessages, now \in Now :
       /\ clock' = now
       /\ addLogEntry("app", LogEntry("app", now, INFO, message), uiQueue)
  /\ UNCHANGED << call, selectedSource, filterText, status, activeLogGroup,
                  awsClient, tailVars, searchIndex, mu, search, remote,
                  panicked >>

\* indexLogEntry(entry), the goroutine of addLogEntry
indexLogEntry ==
  /\ ~panicked
  /\ \E entry \in BagToSet(indexTasks) :
       /\ indexTasks' = indexTasks (-) SetToBag({entry})
       /\ searchIndex' =
            IF searchIndex.open
            THEN [searchIndex EXCEPT !.docs = IndexDoc(@, entry)]
            ELSE searchIndex
  /\ UNCHANGED << call, viewVars, clock, selectedSource, logs, activeLogGroup,
                  awsClient, tailVars, mu, search, uiQueue, loads, remote,
                  panicked, appended >>

\* clearLogs
clearLogs ==
  /\ ~panicked
  /\ mu = "free"
  /\ search.pc = "idle"
  /\ selectedSource # ""
  /\ logs' = SetBuffer(logs, selectedSource, <<>>)
  /\ filteredLogs' = NoRef
  /\ logView' = <<>>
  /\ updateStatus(StatusCleared)
  /\ uiQueue' = DetachAll(logs, uiQueue, selectedSource)
  /\ loads' = DetachAll(logs, loads, selectedSource)
  /\ appended' = Retrack(logs')
  /\ UNCHANGED << call, selectedSource, filterText, activeLogGroup, awsClient,
                  tailVars, searchIndex, indexTasks, mu, search, remote,
                  clock, panicked >>

\* go lt.loadCloudWatchLogs(group): the goroutine is created
SpawnLoad(group) ==
  /\ FreeLoads # {}
  /\ LET l == CHOOSE x \in FreeLoads : \A y \in FreeLoads : x <= y
     IN  loads' = [loads EXCEPT ![l] = [NoLoad EXCEPT !.pc = "fetch",
                                                      !.group = group]]

\* loadLogsForSource: lt.activeLogGroup != "" && lt.awsClient != nil
CanLoad(group) == group # "" /\ awsClient

\* selectSource(sourceName) with loadLogsForSource, for the log group
\* lt.activeLogGroup holds by then; the status line ends with the last
\* message loadLogsForSource writes
selectSource(sourceName, group) ==
  /\ mu = "free"
  /\ selectedSource' = sourceName
  /\ IF sourceName \in DOMAIN logs
     THEN updateLogDisplay(Alias(sourceName, Len(logs[sourceName])), uiQueue)
     ELSE /\ logs' = SetBuffer(logs, sourceName, <<>>)
          /\ filteredLogs' = NoRef
          /\ logView' = <<>>
          /\ appended' = Retrack(logs')
          /\ UNCHANGED uiQueue
          /\ IF sourceName = "cloudwatch" /\ CanLoad(group)
             THEN SpawnLoad(group)
             ELSE UNCHANGED loads

\* a source the handlers of the list never select
AnySelectable(index) == TRUE

\* onSourceSelected and the item callbacks of loadLogSources: source.Enabled
Selectable(index) == logSources[index].Enabled

\* the body of onSourceSelected for the item at index
SourceSelectedAt(index) ==
  IF Selectable(index)
  THEN /\ selectSource(logSources[index].Name, activeLogGroup)
       /\ updateStatus(StatusShowing)
  ELSE UNCHANGED << selectedSource, logs, filteredLogs, logView, status,
                    uiQueue, appended, loads >>

\* onSourceSelected(index, ...): the handler of the source list
onSourceSelected ==
  /\ ~panicked
  /\ search.pc = "idle"
  /\ \E index \in 1..Len(logSources) : SourceSelectedAt(index)
  /\ UNCHANGED << call, filterText, activeLogGroup, awsClient, tailVars, searchIndex,
                  indexTasks, mu, search, remote, clock, panicked >>

\* onSourceSelected(index, ...) with the item it was called for kept as
\* the last call
SelectItem ==
  /\ ~panicked
  /\ search.pc = "idle"
  /\ \E index \in 1..Len(logSources) :
       /\ SourceSelectedAt(index)
       /\ call' = [op |-> "select", index |-> index]
  /\ UNCHANGED << filterText, activeLogGroup, awsClient, tailVars, searchIndex,
                  indexTasks, mu, search, remote, clock, panicked >>

\* ShowLambdaLogGroup(functionName, logGroup)
ShowLambdaLogGroup ==
  /\ ~panicked
  /\ \E logGroup \in Groups :
       /\ activeLogGroup' = logGroup
       /\ selectSource("cloudwatch", logGroup)
       /\ updateStatus(StatusLambda)
  /\ UNCHANGED << call, filterText, awsClient, tailVars, searchIndex, indexTasks, mu,
                  search, remote, clock, panicked >>

\* SetAWSClient(client) with a client that is not nil
SetAWSClient ==
  /\ ~panicked
  /\ mu = "free"
  /\ ~awsClient
  /\ awsClient' = TRUE
  /\ UNCHANGED << call, viewVars, clock, selectedSource, logs, activeLogGroup,
                  tailVars, searchIndex, indexTasks, mu, search, uiQueue,
                  loads, remote, panicked, appended >>

\* cancel(): the contexts cancelled after lt.cloudWatchCancel was called
Cancelled ==
  IF cloudWatchCancel # Nil THEN ctxDone \cup {cloudWatchCancel} ELSE ctxDone

\* stopTailing
stopTailing ==
  /\ mu = "free"
  /\ ctxDone' = Cancelled
  /\ cloudWatchCancel' = Nil
  /\ tailingActive' = FALSE
  /\ UNCHANGED << cloudWatchCtx, tails >>

\* Refresh
Refresh ==
  /\ ~panicked
  /\ mu = "free"
  /\ selectedSource # ""
  /\ CASE selectedSource = "app" ->
            /\ \E now \in Now :
                 /\ clock' = now
                 /\ addLogEntry("app", LogEntry("app", now, INFO, RefreshMessage),
                                uiQueue)
            /\ UNCHANGED tailVars
       [] selectedSource = "cloudwatch" ->
            /\ stopTailing
            /\ IF CanLoad(activeLogGroup)
               THEN SpawnLoad(activeLogGroup)
               ELSE UNCHANGED loads
            /\ UNCHANGED << storeVars, logView, clock >>
       [] OTHER ->
            UNCHANGED << tailVars, loads, storeVars, logView, clock >>
  /\ updateStatus(StatusRefreshed)
  /\ UNCHANGED << call, selectedSource, filterText, activeLogGroup, awsClient,
                  searchIndex, mu, search, remote, panicked >>

\* Cleanup
Cleanup ==
  /\ ~panicked
  /\ stopTailing
  /\ searchIndex' = [open |-> FALSE, docs |-> <<>>]
  /\ UNCHANGED << call, viewVars, clock, selectedSource, logs, activeLogGroup,
                  awsClient, indexTasks, mu, search, uiQueue, loads, remote,
                  panicked, appended >>

(***************************************************************************)
(* ExportLogs.  The file system is an input: the creation of the file, a   *)
(* write of the buffered writer to the file and its last flush may fail.   *)
(***************************************************************************)
\* strings.ToUpper(s)
ToUpper(s) ==
  [i \in 1..Len(s) |-> IF s[i] \in 97..122 THEN s[i] - 32 ELSE s[i]]

\* log.Timestamp.Format("2006-01-02 15:04:05.000"): digits, blanks and
\* punctuation of a fixed width, here the one digit of the model's time
TimeText(timestamp) == << 48 + timestamp >>

\* fmt.Sprintf("%s [%s] %s\n", time, strings.ToUpper(log.Level), log.Message)
ExportLine(entry) ==
  TimeText(entry.Timestamp) \o <<32, 91>> \o ToUpper(entry.Level)
    \o <<93, 32>> \o entry.Message \o <<10>>

\* the text of the lines of the entries, one after the other
RECURSIVE ExportText(_)
ExportText(entries) ==
  IF entries = <<>> THEN <<>>
  ELSE ExportLine(Head(entries)) \o ExportText(Tail(entries))

\* the lines a reader of the text finds: the pieces between line feeds
RECURSIVE ReadLines(_)
ReadLines(text) ==
  IF text = <<>> THEN <<>>
  ELSE IF \E i \in DOMAIN text : text[i] = 10
       THEN LET i == CHOOSE k \in DOMAIN text :
                       text[k] = 10 /\ \A j \in 1..(k - 1) : text[j] # 10
            IN  << SubSeq(text, 1, i - 1) >>
                  \o ReadLines(SubSeq(text, i + 1, Len(text)))
       ELSE << text >>

\* the faults of the file system during the export of n lines: none, the
\* creation fails, the write that line `line` sets off fails, the last
\* flush fails after `reached` lines got to the file
IOFaults(n) ==
  {[at |-> "none", line |-> 0], [at |-> "create", line |-> 0]}
    \cup {[at |-> "write", line |-> i] : i \in 1..n}
    \cup {[at |-> "flush", line |-> i] : i \in 0..(n - 1)}

\* the error ExportLogs returns, "" for nil: writer.Flush() and
\* file.Close() are deferred and their errors dropped
ExportError(io) ==
  CASE io.at = "create" -> "failed to create export file"
    [] io.at = "write" -> "failed to write log line"
    [] OTHER -> ""

\* the entries whose lines got to the file
ExportReached(entries, io) ==
  CASE io.at = "none" -> entries
    [] io.at = "create" -> <<>>
    [] io.at = "write" -> FirstN(entries, io.line - 1)
    [] OTHER -> FirstN(entries, io.line)

\* ExportLogs(filename)
ExportLogs ==
  /\ ~panicked
  /\ mu = "free"
  /\ \E io \in IOFaults(Len(Buffer(selectedSource))) :
       call' = [op |-> "export",
                io |-> io,
                source |-> selectedSource,
                err |-> ExportError(io),
                file |-> ExportText(ExportReached(Buffer(selectedSource), io))]
  /\ UNCHANGED << viewVars, clock, selectedSource, logs, activeLogGroup,
                  awsClient, tailVars, searchIndex, indexTasks, mu, search,
                  uiQueue, loads, remote, panicked, appended >>

(***************************************************************************)
(* loadCloudWatchLogs: the Loading phase.                                  *)
(***************************************************************************)
\* the events of the streams whose GetLogEvents call succeeded, in stream order
RECURSIVE FetchAll(_, _)
FetchAll(streams, failed) ==
  IF streams = <<>> THEN <<>>
  ELSE (IF Head(streams) \in failed THEN <<>>
        ELSE GetLogEvents(remote[Head(streams)], Head(streams),
                          LoadEventLimit).events)
       \o FetchAll(Tail(streams), failed)

\* the conversion of an event to an entry in loadCloudWatchLogs and
\* addCloudWatchEvent
CloudWatchEntry(event, now) ==
  LogEntry("cloudwatch",
           IF event.Timestamp # 0 THEN event.Timestamp ELSE now,
           INFO, event.Message)

\* sort.Slice(logEntries, Timestamp.After): newest first, ties in any order
SortedNewestFirst(entries) ==
  {p \in [1..Len(entries) -> Range(entries)] :
     /\ IsPermutation(p, entries)
     /\ \A i \in 1..(Len(p) - 1) : p[i].Timestamp >= p[i + 1].Timestamp}

\* a Loading that takes no list of streams for empty
NeverStops(streams) == FALSE

\* if len(streams) == 0 { ...; return }
ListedNothing(streams) == Len(streams) = 0

\* lt.app.QueueUpdateDraw(f) by a goroutine: the closure is queued when the
\* queue has room
QueueUpdateDraw(closure) ==
  /\ Len(uiQueue) < MaxQueue
  /\ uiQueue' = Append(uiQueue, closure)

\* DescribeLogStreams and the GetLogEvents calls of loadCloudWatchLogs
LoadFetch(l) ==
  /\ ~panicked
  /\ loads[l].pc = "fetch"
  /\ \/ \* lt.awsClient == nil
        /\ ~awsClient
        /\ updateStatus(StatusNoClient)
        /\ loads' = [loads EXCEPT ![l] = NoLoad]
        /\ UNCHANGED uiQueue
     \/ \* DescribeLogStreams fails
        /\ awsClient
        /\ updateStatus(StatusLoading)
        /\ QueueUpdateDraw(ReportClosure(StatusListFailed))
        /\ loads' = [loads EXCEPT ![l] = NoLoad]
     \/ /\ awsClient
        /\ updateStatus(StatusLoading)
        /\ \E streams \in DescribeLogStreams(loads[l].group, DescribeLimit) :
             IF ListedNothing(streams)
             THEN /\ QueueUpdateDraw(ReportClosure(StatusNoStreams))
                  /\ loads' = [loads EXCEPT ![l] = NoLoad]
             ELSE /\ \E failed \in SUBSET Range(streams) :
                       loads' = [loads EXCEPT
                                   ![l].pc = "store",
                                   ![l].streams = streams,
                                   ![l].events = FetchAll(streams, failed)]
                  /\ UNCHANGED uiQueue
  /\ UNCHANGED << call, filterText, filteredLogs, logView, clock, selectedSource,
                  logs, activeLogGroup, awsClient, tailVars,
                  searchIndex, indexTasks, mu, search, remote,
                  panicked, appended >>

\* lt.logs["cloudwatch"] = logEntries
LoadStore(l) ==
  /\ ~panicked
  /\ loads[l].pc = "store"
  /\ mu = "free"
  /\ \E now \in Now :
       \E logEntries \in SortedNewestFirst(
              [i \in 1..Len(loads[l].events) |->
                 CloudWatchEntry(loads[l].events[i], now)]) :
         /\ clock' = now
         /\ logs' = SetBuffer(logs, "cloudwatch", logEntries)
         /\ loads' = [DetachAll(logs, loads, "cloudwatch")
                        EXCEPT ![l].pc = "display",
                               ![l].events = <<>>,
                               ![l].ref = Settled(logs',
                                            Alias("cloudwatch", Len(logEntries)))]
  /\ filteredLogs' = Detach(logs, filteredLogs, "cloudwatch")
  /\ uiQueue' = DetachAll(logs, uiQueue, "cloudwatch")
  /\ appended' = Retrack(logs')
  /\ UNCHANGED << call, selectedSource, filterText, logView, status, activeLogGroup,
                  awsClient,
                  tailVars, searchIndex, indexTasks, mu, search, remote,
                  panicked >>

\* if selectedSource == "cloudwatch" { QueueUpdateDraw(updateLogDisplay) }
LoadDisplay(l) ==
  /\ ~panicked
  /\ loads[l].pc = "display"
  /\ mu = "free"
  /\ IF selectedSource = "cloudwatch"
     THEN QueueUpdateDraw(DisplayClosure(loads[l].ref))
     ELSE UNCHANGED uiQueue
  /\ loads' = [loads EXCEPT ![l].pc = "report", ![l].ref = NoRef]
  /\ UNCHANGED << call, viewVars, clock, selectedSource, logs,
                  activeLogGroup,
                  awsClient, tailVars, searchIndex, indexTasks, mu, search,
                  remote, panicked, appended >>

\* QueueUpdateDraw(func() { lt.updateStatus("Loaded ...") })
LoadReport(l) ==
  /\ ~panicked
  /\ loads[l].pc = "report"
  /\ QueueUpdateDraw(ReportClosure(StatusLoaded))
  /\ loads' = [loads EXCEPT ![l].pc = "tail"]
  /\ UNCHANGED << call, viewVars, clock, selectedSource, logs,
                  activeLogGroup,
                  awsClient, tailVars, searchIndex, indexTasks, mu, search,
                  remote, panicked, appended >>

\* startTailing: if lt.tailingActive { return }
StartTailingReturnsEarly == tailingActive

\* startTailing(logGroupName, streams), up to the go statement
startTailing(logGroupName, streams) ==
  /\ mu = "free"
  /\ IF StartTailingReturnsEarly
     THEN UNCHANGED tailVars
     ELSE /\ FreeTails # {}
          /\ LET t == CHOOSE x \in FreeTails : \A y \in FreeTails : x <= y
             IN  /\ ctxDone' = Cancelled
                 /\ cloudWatchCtx' = t
                 /\ cloudWatchCancel' = t
                 /\ tailingActive' = TRUE
                 /\ tails' = [tails EXCEPT ![t] =
                                [NoTail EXCEPT !.cpc = "spawned",
                                               !.group = logGroupName,
                                               !.streams = streams]]

\* the last statement of loadCloudWatchLogs
LoadStartTailing(l) ==
  /\ ~panicked
  /\ loads[l].pc = "tail"
  /\ startTailing(loads[l].group, loads[l].streams)
  /\ loads' = [loads EXCEPT ![l] = NoLoad]
  /\ UNCHANGED << call, viewVars, clock, selectedSource, logs,
                  activeLogGroup, awsClient, searchIndex,
                  indexTasks, mu, search, uiQueue, remote, panicked, appended >>


(***************************************************************************)
(* The tail loop: the consumer goroutine of startTailing.                  *)
(***************************************************************************)
\* a tail whose consumer and producer have both returned keeps no state
Settle(tail) ==
  IF tail.cpc = "done" /\ tail.ppc = "done"
  THEN [NoTail EXCEPT !.cpc = "done", !.ppc = "done", !.closed = TRUE]
  ELSE tail

\* the consumer up to `go cloudWatchService.TailLogStreams(lt.cloudWatchCtx, ...)`
ConsumerStart(t) ==
  /\ ~panicked
  /\ tails[t].cpc = "spawned"
  /\ tails' = [tails EXCEPT ![t].cpc = "loop",
                            ![t].ppc = IF tails[t].streams = <<>>
                                       THEN "tick" ELSE "init",
                            ![t].pctx = cloudWatchCtx,
                            ![t].i = IF tails[t].streams = <<>> THEN 0 ELSE 1]
  /\ UNCHANGED << call, viewVars, clock, selectedSource, logs,
                  activeLogGroup, awsClient,
                  cloudWatchCtx, cloudWatchCancel, tailingActive, ctxDone,
                  searchIndex, indexTasks, mu, search, uiQueue, loads, remote,
                  panicked, appended >>

\* the context whose Done channel the consumer selects on: lt.cloudWatchCtx
ConsumerCtx(t) == cloudWatchCtx

\* case <-lt.cloudWatchCtx.Done(): return, with the deferred reset
ConsumerDone(t) ==
  /\ ~panicked
  /\ tails[t].cpc = "loop"
  /\ ConsumerCtx(t) \in ctxDone
  /\ mu = "free"
  /\ tailingActive' = FALSE
  /\ tails' = [tails EXCEPT ![t] = Settle([@ EXCEPT !.cpc = "done"])]
  /\ UNCHANGED << call, viewVars, clock, selectedSource, logs,
                  activeLogGroup, awsClient,
                  cloudWatchCtx, cloudWatchCancel, ctxDone, searchIndex,
                  indexTasks, mu, search, uiQueue, loads, remote, panicked,
                  appended >>

\* case event := <-eventsChan: lt.addCloudWatchEvent(event)
ConsumerEvent(t) ==
  /\ ~panicked
  /\ tails[t].cpc = "loop"
  /\ tails[t].eventsChan # <<>> \/ tails[t].closed
  /\ Len(uiQueue) < MaxQueue
  /\ LET event == IF tails[t].eventsChan # <<>>
                  THEN Head(tails[t].eventsChan) ELSE ZeroEvent
     IN  \E now \in Now :
           /\ clock' = now
           /\ uiQueue' = Append(uiQueue,
                           AddClosure(CloudWatchEntry(event, now), t))
  /\ tails' = [tails EXCEPT ![t].eventsChan =
                 IF @ # <<>> THEN Tail(@) ELSE @]
  /\ UNCHANGED << call, viewVars, selectedSource, logs,
                  activeLogGroup, awsClient,
                  cloudWatchCtx, cloudWatchCancel, tailingActive, ctxDone,
                  searchIndex, indexTasks, mu, search, loads, remote, panicked,
                  appended >>

\* case err := <-errorChan: the status closure is queued
ConsumerError(t) ==
  /\ ~panicked
  /\ tails[t].cpc = "loop"
  /\ tails[t].errorChan # <<>> \/ tails[t].closed
  /\ Len(uiQueue) < MaxQueue
  /\ uiQueue' = Append(uiQueue,
                  StatusClosure(IF tails[t].errorChan # <<>>
                                THEN Head(tails[t].errorChan) ELSE "nil", t))
  /\ tails' = [tails EXCEPT ![t].errorChan =
                 IF @ # <<>> THEN Tail(@) ELSE @]
  /\ UNCHANGED << call, viewVars, clock, selectedSource, logs,
                  activeLogGroup, awsClient,
                  cloudWatchCtx, cloudWatchCancel, tailingActive, ctxDone,
                  searchIndex, indexTasks, mu, search, loads, remote, panicked,
                  appended >>

\* the event loop of tview runs the closure at the head of the queue
RunQueuedUpdate ==
  /\ ~panicked
  /\ uiQueue # <<>>
  /\ search.pc = "idle"
  /\ CASE Head(uiQueue).kind = "add" ->
            /\ addLogEntry("cloudwatch", Head(uiQueue).entry, Tail(uiQueue))
            /\ UNCHANGED << status, panicked >>
       [] Head(uiQueue).kind = "display" ->
            /\ updateLogDisplay(Head(uiQueue).ref, Tail(uiQueue))
            /\ UNCHANGED << indexTasks, status, panicked >>
       [] OTHER ->
            \* err.Error() of a nil error dereferences nil
            /\ panicked' = (Head(uiQueue).err = "nil")
            /\ IF panicked' THEN UNCHANGED status
               ELSE updateStatus(Head(uiQueue).msg)
            /\ uiQueue' = Tail(uiQueue)
            /\ UNCHANGED << logs, filteredLogs, logView, appended, indexTasks,
                            loads >>
  /\ UNCHANGED << call, selectedSource, filterText, activeLogGroup, awsClient,
                  tailVars, searchIndex, mu, search, remote, clock >>

(***************************************************************************)
(* The tail producer: CloudWatchLogsService.TailLogStreams.                *)
(***************************************************************************)
\* the producer has returned: defer close(errorChan), defer close(eventsChan)
Returned(tail) ==
  Settle([tail EXCEPT !.ppc = "done", !.closed = TRUE, !.i = 0,
                      !.out = <<>>, !.next = 0, !.tokens = <<>>, !.pctx = Nil])

\* the producer moves on to the next stream of its for loop
NextStream(tail) ==
  IF tail.i < Len(tail.streams)
  THEN [tail EXCEPT !.i = @ + 1]
  ELSE [tail EXCEPT !.i = 0, !.ppc = "tick"]

\* nextTokens[streamName] = nextToken
SetToken(tail, token) ==
  [tail EXCEPT !.tokens =
     [s \in DOMAIN @ \cup {tail.streams[tail.i]} |->
        IF s = tail.streams[tail.i] THEN token ELSE @[s]]]

\* the events and the token a fetch of the producer returns
ProducerFetchResult(tail) ==
  LET s == tail.streams[tail.i]
  IN  IF tail.ppc = "init"
      THEN GetLogEvents(remote[s], s, TailInitLimit)
      ELSE GetLogEventsWithToken(remote[s], s, tail.tokens[s], PollLimit)

\* a stream whose initial fetch failed has no token: the poll skips it
Untracked(tail) ==
  tail.ppc = "poll" /\ tail.streams[tail.i] \notin DOMAIN tail.tokens

\* the errors of a fetch: the context was cancelled, the backend failed
ErrCanceled == "context canceled"
ErrBackend == "error"

\* a producer that returns at the failure of a fetch
StopAtError(tail, err) ==
  [tail EXCEPT !.ppc = "done", !.closed = TRUE, !.errorChan = Append(@, err)]

\* errorChan <- fmt.Errorf("...: %w", err); continue: the loop goes on with
\* the next stream
SendError(tail, err) ==
  NextStream([tail EXCEPT !.errorChan = Append(@, err)])

\* one GetLogEvents / GetLogEventsWithToken call of the producer: it fails
\* when the context is cancelled, else it returns events
ProducerFetch(t) ==
  LET tail == tails[t]
  IN  /\ ~panicked
      /\ tail.ppc \in {"init", "poll"}
      /\ tail.out = <<>>
      /\ IF Untracked(tail)
         THEN tails' = [tails EXCEPT ![t] = NextStream(tail)]
         ELSE IF tail.pctx \in ctxDone
              THEN /\ Len(tail.errorChan) < ErrorChanCap
                   /\ tails' = [tails EXCEPT ![t] =
                                  SendError(tail, ErrCanceled)]
              ELSE LET r == ProducerFetchResult(tail)
                   IN  tails' = [tails EXCEPT ![t] =
                         IF r.events = <<>>
                         THEN NextStream(SetToken(tail, r.nextForwardToken))
                         ELSE [tail EXCEPT !.out = r.events,
                                           !.next = r.nextForwardToken]]
      /\ UNCHANGED << call, viewVars, clock, selectedSource, logs,
                      activeLogGroup, awsClient,
                      cloudWatchCtx, cloudWatchCancel, tailingActive, ctxDone,
                      searchIndex, indexTasks, mu, search, uiQueue, loads,
                      remote, panicked, appended >>

\* one GetLogEvents / GetLogEventsWithToken call of the producer that
\* fails though the context is live: the backend reports an error
ProducerFetchFails(t) ==
  LET tail == tails[t]
  IN  /\ ~panicked
      /\ tail.ppc \in {"init", "poll"}
      /\ tail.out = <<>>
      /\ ~Untracked(tail)
      /\ tail.pctx \notin ctxDone
      /\ Len(tail.errorChan) < ErrorChanCap
      /\ tails' = [tails EXCEPT ![t] = SendError(tail, ErrBackend)]
      /\ UNCHANGED << call, viewVars, clock, selectedSource, logs,
                      activeLogGroup, awsClient,
                      cloudWatchCtx, cloudWatchCancel, tailingActive, ctxDone,
                      searchIndex, indexTasks, mu, search, uiQueue, loads,
                      remote, panicked, appended >>

\* select { case eventsChan <- event: case <-ctx.Done(): return }
ProducerSend(t) ==
  LET tail == tails[t]
  IN  /\ ~panicked
      /\ tail.ppc \in {"init", "poll"}
      /\ tail.out # <<>>
      /\ \/ /\ Len(tail.eventsChan) < EventsChanCap
            /\ LET sent == [tail EXCEPT !.eventsChan = Append(@, Head(tail.out)),
                                        !.out = Tail(@)]
               IN  tails' = [tails EXCEPT ![t] =
                     IF sent.out = <<>>
                     THEN NextStream([SetToken(sent, sent.next) EXCEPT !.next = 0])
                     ELSE sent]
         \/ /\ tail.pctx \in ctxDone
            /\ tails' = [tails EXCEPT ![t] = Returned(tail)]
      /\ UNCHANGED << call, viewVars, clock, selectedSource, logs,
                      activeLogGroup, awsClient,
                      cloudWatchCtx, cloudWatchCancel, tailingActive, ctxDone,
                      searchIndex, indexTasks, mu, search, uiQueue, loads,
                      remote, panicked, appended >>

\* select { case <-ctx.Done(): return; case <-ticker.C: poll every stream }
ProducerTick(t) ==
  LET tail == tails[t]
  IN  /\ ~panicked
      /\ tail.ppc = "tick"
      /\ \/ tails' = [tails EXCEPT ![t] =
                        IF tail.streams = <<>> THEN tail
                        ELSE [tail EXCEPT !.ppc = "poll", !.i = 1]]
         \/ /\ tail.pctx \in ctxDone
            /\ tails' = [tails EXCEPT ![t] = Returned(tail)]
      /\ UNCHANGED << call, viewVars, clock, selectedSource, logs,
                      activeLogGroup, awsClient,
                      cloudWatchCtx, cloudWatchCancel, tailingActive, ctxDone,
                      searchIndex, indexTasks, mu, search, uiQueue, loads,
                      remote, panicked, appended >>

\* the remote backend receives an event on stream s
RemoteAppend(s) ==
  /\ ~panicked
  /\ s \in DOMAIN remote
  /\ remote[s] < MaxRemoteEvents
  /\ remote' = [remote EXCEPT ![s] = @ + 1]
  /\ UNCHANGED << call, viewVars, clock, selectedSource, logs,
                  activeLogGroup, awsClient, tailVars,
                  searchIndex, indexTasks, mu, search, uiQueue, loads, panicked,
                  appended >>

(***************************************************************************)
(* The filter field and performSearch, on the UI goroutine.                *)
(***************************************************************************)
\* findLogEntryByID starts with lt.mu.RLock(): it needs lt.mu without a writer
CanRLock == mu = "free"

\* buildSearchQuery(queryStr) returns nil
NoQuery(queryStr) == TrimSpace(queryStr) = <<>>

\* buildSearchQuery: strings.Contains(queryStr, " "), "\"" or "*"
BuildsQueryString(queryStr) ==
  \E i \in 1..Len(queryStr) : queryStr[i] \in {32, 34, 42}

\* the query buildSearchQuery(queryStr) returns: nil, a query-string query
\* or the disjunction of the match queries on Message, Level and Source
buildSearchQuery(queryStr) ==
  IF NoQuery(queryStr) THEN "nil"
  ELSE IF BuildsQueryString(queryStr) THEN "QueryStringQuery"
       ELSE "DisjunctionQuery"

\* the function onFilterChanged(text) hands the text to
FilterHandler(text) ==
  IF IsQueryString(text) THEN "performSearch" ELSE "applyFilter"

\* the texts the two functions are given: a letter, a tab, a blank, a
\* quote and the wildcard, up to MaxTextLen characters
TextAlphabet == {97, 9, 32, 34, 42}
TextsOver(alphabet, n) ==
  UNION {[1..k -> alphabet] : k \in 0..n}

\* onFilterChanged(text) up to its branch, and buildSearchQuery(text)
ClassifyText ==
  /\ call.op = "text"
  /\ call' = [op |-> "classified",
              text |-> call.text,
              handler |-> FilterHandler(call.text),
              query |-> buildSearchQuery(call.text)]
  /\ UNCHANGED tabVars

\* performSearch(queryStr) up to lt.mu.Lock()
performSearch(queryStr) ==
  IF ~searchIndex.open
  THEN /\ updateStatus(StatusNoIndex)
       /\ UNCHANGED << logs, filteredLogs, logView, uiQueue, loads, appended,
                       mu, search >>
  ELSE IF NoQuery(queryStr)
       THEN /\ Render(filteredLogs, queryStr, uiQueue)
            /\ UNCHANGED << status, mu, search >>
       ELSE /\ search' = [pc |-> "scan",
                          hits |-> SearchHits(searchIndex.docs, queryStr)]
            /\ mu' = "search"
            /\ UNCHANGED << logs, filteredLogs, logView, status, uiQueue,
                            loads, appended >>

\* onFilterChanged(text): the filter field holds a new text
onFilterChanged ==
  /\ ~panicked
  /\ search.pc = "idle"
  /\ mu = "free"
  /\ \E text \in FilterTexts :
       /\ text # filterText
       /\ filterText' = text
       /\ IF IsQueryString(text)
          THEN performSearch(text)
          ELSE /\ Render(filteredLogs, text, uiQueue)
               /\ UNCHANGED << status, mu, search >>
  /\ UNCHANGED << call, selectedSource, activeLogGroup, awsClient, tailVars,
                  searchIndex, indexTasks, remote, clock, panicked >>

\* the loop over searchResults.Hits, lt.filteredLogs = searchResultsEntries,
\* then the deferred lt.mu.Unlock()
SearchScan ==
  /\ ~panicked
  /\ search.pc = "scan"
  /\ IF search.hits = {}
     THEN /\ search' = IdleSearch
          /\ filteredLogs' = NoRef
          /\ logView' = <<>>
          /\ updateStatus(StatusFound)
          /\ mu' = "free"
     ELSE /\ CanRLock
          /\ \E id \in search.hits :
               search' = [search EXCEPT !.hits = @ \ {id}]
          /\ UNCHANGED << mu, filteredLogs, logView, status >>
  /\ UNCHANGED << call, filterText, clock, selectedSource, logs, activeLogGroup,
                  awsClient, tailVars, searchIndex, indexTasks, uiQueue, loads,
                  remote, panicked, appended >>


Next ==
  \/ AddApplicationLog
  \/ indexLogEntry
  \/ clearLogs
  \/ onSourceSelected
  \/ ShowLambdaLogGroup
  \/ SetAWSClient
  \/ Refresh
  \/ Cleanup
  \/ \E l \in LoadIds : LoadFetch(l)
  \/ \E l \in LoadIds : LoadStore(l)
  \/ \E l \in LoadIds : LoadDisplay(l)
  \/ \E l \in LoadIds : LoadReport(l)
  \/ \E l \in LoadIds : LoadStartTailing(l)
  \/ \E t \in TailIds : ConsumerStart(t)
  \/ \E t \in TailIds : ConsumerDone(t)
  \/ \E t \in TailIds : ConsumerEvent(t)
  \/ \E t \in TailIds : ConsumerError(t)
  \/ \E t \in TailIds : ProducerFetch(t)
  \/ \E t \in TailIds : ProducerFetchFails(t)
  \/ \E t \in TailIds : ProducerSend(t)
  \/ \E t \in TailIds : ProducerTick(t)
  \/ RunQueuedUpdate
  \/ \E s \in AllStreams : RemoteAppend(s)
  \/ onFilterChanged
  \/ SearchScan

Spec == Init /\ [][Next]_vars

(***************************************************************************)
(* StoreSpec: the buffers, the index and the search of a tab that is never *)
(* given an AWS client.                                                    *)
(***************************************************************************)
StoreInit ==
  /\ Init
  /\ Observed
  /\ searchIndex.open
  /\ DOMAIN appended # {}
  /\ DOMAIN remote = {1}
  /\ LoadIds = {1}
  /\ TailIds = {1}

StoreNext ==
  \/ AddApplicationLog
  \/ indexLogEntry
  \/ clearLogs
  \/ onSourceSelected
  \/ ShowLambdaLogGroup
  \/ Refresh
  \/ Cleanup
  \/ onFilterChanged
  \/ SearchScan

StoreSpec == StoreInit /\ [][StoreNext]_vars

(***************************************************************************)
(* TailSpec: the Lambda log view of a group of one stream that receives no *)
(* new events and whose fetches fail only by cancellation: one Loading at  *)
(* a time and room for two tail loops whose errors stay in errorChan, with *)
(* the search index unavailable and the outputs left out.                  *)
(***************************************************************************)
TailInit ==
  /\ Init
  /\ ~Observed
  /\ ~searchIndex.open
  /\ DOMAIN appended = {}
  /\ DOMAIN remote = {1}
  /\ LoadIds = {1}
  /\ TailIds = 1..MaxTails

TailNext ==
  \/ ShowLambdaLogGroup
  \/ SetAWSClient
  \/ Refresh
  \/ Cleanup
  \/ \E l \in LoadIds : LoadFetch(l)
  \/ \E l \in LoadIds : LoadStore(l)
  \/ \E l \in LoadIds : LoadDisplay(l)
  \/ \E l \in LoadIds : LoadReport(l)
  \/ \E l \in LoadIds : LoadStartTailing(l)
  \/ \E t \in TailIds : ConsumerStart(t)
  \/ \E t \in TailIds : ConsumerDone(t)
  \/ \E t \in TailIds : ConsumerEvent(t)
  \/ \E t \in TailIds : ProducerFetch(t)
  \/ \E t \in TailIds : ProducerSend(t)
  \/ \E t \in TailIds : ProducerTick(t)
  \/ RunQueuedUpdate

TailSpec == TailInit /\ [][TailNext]_vars

(***************************************************************************)
(* LoadSpec: concurrent Loading phases and one tail loop of a group of one *)
(* stream that receives no new events and whose fetches fail only by       *)
(* cancellation, with the source list, the search index unavailable and    *)
(* the outputs left out.                                                   *)
(***************************************************************************)
LoadInit ==
  /\ Init
  /\ ~Observed
  /\ ~searchIndex.open
  /\ DOMAIN appended = {}
  /\ DOMAIN remote = {1}
  /\ LoadIds = 1..MaxLoads
  /\ TailIds = {1}

LoadNext ==
  \/ onSourceSelected
  \/ ShowLambdaLogGroup
  \/ SetAWSClient
  \/ Refresh
  \/ Cleanup
  \/ \E l \in LoadIds : LoadFetch(l)
  \/ \E l \in LoadIds : LoadStore(l)
  \/ \E l \in LoadIds : LoadDisplay(l)
  \/ \E l \in LoadIds : LoadReport(l)
  \/ \E l \in LoadIds : LoadStartTailing(l)
  \/ \E t \in TailIds : ConsumerStart(t)
  \/ \E t \in TailIds : ConsumerDone(t)
  \/ \E t \in TailIds : ConsumerEvent(t)
  \/ \E t \in TailIds : ConsumerError(t)
  \/ \E t \in TailIds : ProducerFetch(t)
  \/ \E t \in TailIds : ProducerSend(t)
  \/ \E t \in TailIds : ProducerTick(t)
  \/ RunQueuedUpdate

LoadSpec == LoadInit /\ [][LoadNext]_vars

(***************************************************************************)
(* FeedSpec: one Loading at a time and one tail loop of a group of one     *)
(* stream that keeps receiving events, with the source list, Clear and     *)
(* Refresh, the search index unavailable and the outputs left out.         *)
(***************************************************************************)
FeedInit ==
  /\ Init
  /\ ~Observed
  /\ ~searchIndex.open
  /\ DOMAIN appended = {}
  /\ DOMAIN remote = {1}
  /\ LoadIds = {1}
  /\ TailIds = {1}

FeedNext ==
  \/ clearLogs
  \/ onSourceSelected
  \/ ShowLambdaLogGroup
  \/ SetAWSClient
  \/ Refresh
  \/ Cleanup
  \/ \E l \in LoadIds : LoadFetch(l)
  \/ \E l \in LoadIds : LoadStore(l)
  \/ \E l \in LoadIds : LoadDisplay(l)
  \/ \E l \in LoadIds : LoadReport(l)
  \/ \E l \in LoadIds : LoadStartTailing(l)
  \/ \E t \in TailIds : ConsumerStart(t)
  \/ \E t \in TailIds : ConsumerDone(t)
  \/ \E t \in TailIds : ConsumerEvent(t)
  \/ \E t \in TailIds : ConsumerError(t)
  \/ \E t \in TailIds : ProducerFetch(t)
  \/ \E t \in TailIds : ProducerFetchFails(t)
  \/ \E t \in TailIds : ProducerSend(t)
  \/ \E t \in TailIds : ProducerTick(t)
  \/ RunQueuedUpdate
  \/ \E s \in AllStreams : RemoteAppend(s)

FeedSpec == FeedInit /\ [][FeedNext]_vars

(***************************************************************************)
(* ViewSpec: the Lambda log view of a group of two streams that keep       *)
(* receiving events, with the source list and the filter field, the search *)
(* index unavailable; no tail is cancelled and no fetch fails.             *)
(***************************************************************************)
ViewInit ==
  /\ Init
  /\ Observed
  /\ ~searchIndex.open
  /\ DOMAIN appended # {}
  /\ DOMAIN remote = AllStreams
  /\ LoadIds = {1}
  /\ TailIds = {1}

ViewNext ==
  \/ onSourceSelected
  \/ onFilterChanged
  \/ ShowLambdaLogGroup
  \/ SetAWSClient
  \/ \E l \in LoadIds : LoadFetch(l)
  \/ \E l \in LoadIds : LoadStore(l)
  \/ \E l \in LoadIds : LoadDisplay(l)
  \/ \E l \in LoadIds : LoadReport(l)
  \/ \E l \in LoadIds : LoadStartTailing(l)
  \/ \E t \in TailIds : ConsumerStart(t)
  \/ \E t \in TailIds : ConsumerEvent(t)
  \/ \E t \in TailIds : ProducerFetch(t)
  \/ \E t \in TailIds : ProducerSend(t)
  \/ \E t \in TailIds : ProducerTick(t)
  \/ RunQueuedUpdate
  \/ \E s \in AllStreams : RemoteAppend(s)

ViewSpec == ViewInit /\ [][ViewNext]_vars

(***************************************************************************)
(* QuitSpec: the Lambda log view of a group of one stream that receives no *)
(* new events and whose fetches fail only by cancellation, with Refresh    *)
(* and Cleanup, the search index available until Cleanup and the outputs   *)
(* followed: one Loading at a time, one tail loop.                         *)
(***************************************************************************)
QuitInit ==
  /\ Init
  /\ Observed
  /\ searchIndex.open
  /\ DOMAIN appended = {}
  /\ DOMAIN remote = {1}
  /\ LoadIds = {1}
  /\ TailIds = {1}

QuitNext ==
  \/ indexLogEntry
  \/ ShowLambdaLogGroup
  \/ SetAWSClient
  \/ Refresh
  \/ Cleanup
  \/ \E l \in LoadIds : LoadFetch(l)
  \/ \E l \in LoadIds : LoadStore(l)
  \/ \E l \in LoadIds : LoadDisplay(l)
  \/ \E l \in LoadIds : LoadReport(l)
  \/ \E l \in LoadIds : LoadStartTailing(l)
  \/ \E t \in TailIds : ConsumerStart(t)
  \/ \E t \in TailIds : ConsumerDone(t)
  \/ \E t \in TailIds : ConsumerEvent(t)
  \/ \E t \in TailIds : ConsumerError(t)
  \/ \E t \in TailIds : ProducerFetch(t)
  \/ \E t \in TailIds : ProducerSend(t)
  \/ \E t \in TailIds : ProducerTick(t)
  \/ RunQueuedUpdate

QuitSpec == QuitInit /\ [][QuitNext]_vars

(***************************************************************************)
(* SkipSpec: the Lambda log view of a group of two streams that receive    *)
(* events and whose fetches fail by a backend error, with no cancellation: *)
(* one Loading, one tail loop, the search index unavailable and the        *)
(* outputs left out.                                                       *)
(***************************************************************************)
SkipInit ==
  /\ Init
  /\ ~Observed
  /\ ~searchIndex.open
  /\ DOMAIN appended = {}
  /\ DOMAIN remote = AllStreams
  /\ LoadIds = {1}
  /\ TailIds = {1}

SkipNext ==
  \/ ShowLambdaLogGroup
  \/ SetAWSClient
  \/ \E l \in LoadIds : LoadFetch(l)
  \/ \E l \in LoadIds : LoadStore(l)
  \/ \E l \in LoadIds : LoadDisplay(l)
  \/ \E l \in LoadIds : LoadReport(l)
  \/ \E l \in LoadIds : LoadStartTailing(l)
  \/ \E t \in TailIds : ConsumerStart(t)
  \/ \E t \in TailIds : ConsumerEvent(t)
  \/ \E t \in TailIds : ConsumerError(t)
  \/ \E t \in TailIds : ProducerFetch(t)
  \/ \E t \in TailIds : ProducerFetchFails(t)
  \/ \E t \in TailIds : ProducerSend(t)
  \/ \E t \in TailIds : ProducerTick(t)
  \/ \E s \in AllStreams : RemoteAppend(s)
  \/ RunQueuedUpdate

SkipSpec == SkipInit /\ [][SkipNext]_vars

(***************************************************************************)
(* ExportSpec: the application source and the source list with exports to  *)
(* a file system that may fail; the search index unavailable and the       *)
(* outputs of the view left out.                                           *)
(***************************************************************************)
ExportInit ==
  /\ Init
  /\ ~Observed
  /\ ~searchIndex.open
  /\ DOMAIN appended = {}
  /\ DOMAIN remote = {1}
  /\ LoadIds = {1}
  /\ TailIds = {1}

ExportNext ==
  \/ AddApplicationLog
  \/ clearLogs
  \/ onSourceSelected
  \/ ExportLogs

ExportSpec == ExportInit /\ [][ExportNext]_vars

(***************************************************************************)
(* ClassifySpec: onFilterChanged and buildSearchQuery as functions of the  *)
(* filter text, for every text of TextsOver(TextAlphabet, MaxTextLen).     *)
(***************************************************************************)
\* the tab right after NewLogsTab, with one tail and one Loading at most
FreshTab ==
  /\ NewLogsTab
  /\ ~Observed
  /\ ~searchIndex.open
  /\ DOMAIN appended = {}
  /\ DOMAIN remote = {1}
  /\ LoadIds = {1}
  /\ TailIds = {1}

ClassifyInit ==
  /\ FreshTab
  /\ call \in {[op |-> "text", text |-> text] :
                 text \in TextsOver(TextAlphabet, MaxTextLen)}

ClassifyNext == ClassifyText

ClassifySpec == ClassifyInit /\ [][ClassifyNext]_vars

(***************************************************************************)
(* Properties.                                                             *)
(***************************************************************************)
\* a tail loop with a live goroutine: its consumer or its TailLogStreams
TailActive(t) ==
  \/ tails[t].cpc \in {"spawned", "loop"}
  \/ tails[t].ppc \in {"init", "poll", "tick"}

\* the UI loop runs the closure at the head of its queue in this step
RunsHead == uiQueue # <<>> /\ uiQueue' = Tail(uiQueue)

\* C1: once the context of a tail is cancelled, the UI loop runs no append
\* of an entry of that tail
C1_NoAppendAfterCancel ==
  [][RunsHead => ~(Head(uiQueue).kind = "add" /\ Head(uiQueue).tail \in ctxDone)]_vars

\* C1 witness: the append of a fetched event is queued to the UI loop and
\* the context of its tail is cancelled
C1_Witness ==
  \E i \in 1..Len(uiQueue) :
    /\ uiQueue[i].kind = "add"
    /\ uiQueue[i].entry.Message # <<>>
    /\ uiQueue[i].tail \in ctxDone

\* C2: in every state at most one tail loop has a live goroutine
C2_AtMostOneTailLoop ==
  Cardinality({t \in TailIds : TailActive(t)}) <= 1

\* C3: in every state every source buffer holds at most maxLines entries
C3_BufferBounded ==
  \A sourceName \in DOMAIN logs : Len(logs[sourceName]) <= maxLines

\* C3 witness: appends have overflowed the app buffer (the startup entry is
\* gone) and a tail has filled the cloudwatch buffer after a reload
C3_Witness ==
  /\ Buffer("app") = [i \in 1..maxLines |-> LogEntry("app", 1, INFO, RefreshMessage)]
  /\ Len(Buffer("cloudwatch")) = maxLines
  /\ \E t \in TailIds : tails[t].cpc # "none"

\* C4: every source buffer holds exactly the last min(n, maxLines) of the
\* entries placed in it (its content when another operation last wrote it,
\* then the n entries addLogEntry appended), in the order they were appended
C4_LastAppendedKept ==
  \A sourceName \in DOMAIN appended :
    Buffer(sourceName) = LastN(appended[sourceName], maxLines)

\* C4 witness: the cloudwatch source is selected and lt.filteredLogs shares
\* the array of its buffer, which is not in timestamp order, while the
\* filter text is blank: the next addLogEntry sorts the shared part
C4_Witness ==
  /\ selectedSource = "cloudwatch"
  /\ filteredLogs.src = "cloudwatch"
  /\ ~Ascending(Region(logs, filteredLogs))
  /\ TrimSpace(filterText) = <<>>

\* C5: the cloudwatch buffer holds no remote event twice
C5_NoEventTwice ==
  \A i, j \in 1..Len(Buffer("cloudwatch")) :
    (i # j /\ Buffer("cloudwatch")[i].Message # <<>>)
      => Buffer("cloudwatch")[i] # Buffer("cloudwatch")[j]

\* C6: the step that completes a Loading starts the tail loop of that
\* Loading, for its group and its stream list
C6_LoadingStartsItsTail ==
  [][\A l \in LoadIds :
       (loads[l].pc = "tail" /\ loads'[l].pc = "none")
         => \E t \in TailIds :
              /\ tails[t].cpc = "none"
              /\ tails'[t].cpc = "spawned"
              /\ tails'[t].group = loads[l].group
              /\ tails'[t].streams = loads[l].streams
              /\ cloudWatchCtx' = t]_vars

\* C7: a search that holds the lock can always take its next step
C7_SearchNeverBlocks ==
  search.pc = "scan" => ENABLED SearchScan

\* C7 witness: performSearch holds lt.mu and has hits to look up
C7_Witness ==
  search.pc = "scan" /\ search.hits # {} /\ mu = "search"

\* C8: every entry the index holds is in some source buffer
C8_IndexWithinStore ==
  Indexed \subseteq Stored

\* C9: with the index available and no indexing task left to run, every
\* buffered entry is in the index
C9_StoreWithinIndex ==
  (searchIndex.open /\ indexTasks = EmptyBag) => Stored \subseteq Indexed

\* C10: the step that moves the selection away from cloudwatch leaves the
\* tail stopped: its context cancelled and tailingActive false
C10_DeselectStopsTail ==
  [][(selectedSource = "cloudwatch" /\ selectedSource' # "cloudwatch")
       => (~tailingActive' /\ cloudWatchCancel' = Nil)]_vars

\* C11: in a run that starts with the search index available, so that it is
\* unavailable exactly after Cleanup: after Cleanup no tail loop is started
\* and the UI loop appends no entry
C11_StoppedAfterCleanup ==
  [][~searchIndex.open =>
       /\ \A t \in TailIds : tails[t].cpc = "none" => tails'[t].cpc = "none"
       /\ ~(RunsHead /\ Head(uiQueue).kind = "add")]_vars

\* C11 witness: Cleanup has run while a Loading is in flight
C11_Witness ==
  /\ ~searchIndex.open
  /\ cloudWatchCancel = Nil
  /\ \E l \in LoadIds : loads[l].pc = "store"

\* C12: a step that changes the filter text to a query string while the
\* index is unavailable, or to a blank query string, leaves the view with
\* the entries of lt.filteredLogs that contain the trimmed text, oldest first
C12_FallbackFilter ==
  [][(/\ filterText' # filterText
      /\ IsQueryString(filterText')
      /\ ~searchIndex.open \/ NoQuery(filterText'))
       => logView' \in SortOldestFirst(
                         Matching(Entries(logs', filteredLogs'), filterText'))]_vars

\* C12 witness: the index is unavailable, the view shows entries and the
\* filter field holds a query string that none of them contains
C12_Witness ==
  /\ ~searchIndex.open
  /\ IsQueryString(filterText)
  /\ logView # <<>>
  /\ Matching(logView, filterText) = <<>>

C14_ReadsKeepStore ==
  [][(onSourceSelected \/ onFilterChanged \/ SearchScan)
       => \A sourceName \in DOMAIN logs : logs'[sourceName] = logs[sourceName]]_vars

\* C14 witness: the cloudwatch buffer holds its entries newest first, as
\* Loading stored them, and the filter text is blank: selecting the source
\* renders the buffer
C14_Witness ==
  /\ "cloudwatch" \in DOMAIN logs
  /\ ~Ascending(Buffer("cloudwatch"))
  /\ TrimSpace(filterText) = <<>>
  /\ \A l \in LoadIds : loads[l].pc = "none"

\* C15: after an append to the selected source the rendered view contains
\* the appended entry when the entry passes the filter text
C15_AppendShown ==
  [][(AddApplicationLog /\ selectedSource = "app"
        /\ Matches(Buffer("app")'[Len(Buffer("app")')], filterText))
       => \E i \in DOMAIN logView' :
            logView'[i] = Buffer("app")'[Len(Buffer("app")')]]_vars

\* C15 witness: an entry was appended to the selected application source,
\* the filter text is blank and the rendered view shows no entry
C15_Witness ==
  /\ selectedSource = "app"
  /\ TrimSpace(filterText) = <<>>
  /\ Len(Buffer("app")) > NumSampleLogs
  /\ logView = <<>>

\* C16: an activation signal ShowLambdaLogGroup received while a remote
\* client is available starts a Loading for the given group
C16_ActivationLoads ==
  [][(ShowLambdaLogGroup /\ awsClient)
       => \E l \in LoadIds :
            /\ loads[l].pc = "none"
            /\ loads'[l].pc = "fetch"
            /\ loads'[l].group = activeLogGroup']_vars

\* C16 witness: the group g2 was activated while the client was available
\* and the tail of the group g1 was running, and no Loading has started
C16_Witness ==
  /\ awsClient
  /\ activeLogGroup = "g2"
  /\ status = StatusLambda
  /\ \A l \in LoadIds : loads[l].pc = "none"
  /\ \E t \in TailIds : tails[t].group = "g1" /\ tails[t].cpc # "none"

\* C17: a fetch that fails for one stream only skips that stream for that
\* fetch.  In a tail poll the producer sends the error and goes on with the
\* next stream of the round, or waits for the next tick after the last one:
\* it does not return, the tokens of all streams and the events already
\* sent are kept.  In Loading the batch holds, for each listed stream,
\* either its events or none, and the Loading that reaches its last
\* statement starts the tail of all listed streams.
C17_FailureSkipsStream ==
  [][/\ \A t \in TailIds :
          (tails[t].ppc = "poll"
             /\ Len(tails'[t].errorChan) > Len(tails[t].errorChan))
            => /\ ~tails'[t].closed
               /\ tails'[t].tokens = tails[t].tokens
               /\ tails'[t].eventsChan = tails[t].eventsChan
               /\ tails'[t].streams = tails[t].streams
               /\ IF tails[t].i < Len(tails[t].streams)
                  THEN tails'[t].ppc = "poll" /\ tails'[t].i = tails[t].i + 1
                  ELSE tails'[t].ppc = "tick"
     /\ \A l \in LoadIds :
          (loads[l].pc = "fetch" /\ loads'[l].pc = "store")
            => \A s \in Range(loads'[l].streams) :
                 SelectSeq(loads'[l].events,
                           LAMBDA event : event.Message[1] = s)
                   \in {<<>>, GetLogEvents(remote[s], s, LoadEventLimit).events}
     /\ \A l \in LoadIds :
          (loads[l].pc = "tail" /\ loads'[l].pc = "none")
            => \E t \in TailIds :
                 /\ tails'[t].cpc = "spawned"
                 /\ tails'[t].streams = loads[l].streams]_vars

\* C17 witness: Loading stored the events of one of two streams only and
\* went on to Tailing; the tail fetched both streams at its start, a poll
\* then failed, and the poll of the second stream has returned events
C17_Witness ==
  \E t \in TailIds :
    /\ Len(tails[t].streams) = 2
    /\ Len(Buffer("cloudwatch")) = 1
    /\ DOMAIN tails[t].tokens = Range(tails[t].streams)
    /\ tails[t].errorChan = << ErrBackend >>
    /\ tails[t].ppc = "poll"
    /\ tails[t].i = 2
    /\ tails[t].out # <<>>

\* C18: a Loading whose listing of the streams fails or returns no stream
\* ends there: it queues a status message, leaves every buffer as it is and
\* starts no tail loop; a tail loop that runs has one stream or more
C18_TailNeedsStreams ==
  [][/\ \A l \in LoadIds :
          (awsClient /\ loads[l].pc = "fetch" /\ loads'[l].pc = "none")
            => /\ logs' = logs
               /\ tails' = tails
               /\ tailingActive' = tailingActive
               /\ cloudWatchCancel' = cloudWatchCancel
               /\ uiQueue' \in {Append(uiQueue, ReportClosure(msg)) :
                                  msg \in {StatusListFailed, StatusNoStreams}}
     /\ \A t \in TailIds : TailActive(t)' => tails'[t].streams # <<>>]_vars

\* C18 witness: the group g2, which has no stream, was loaded: the status
\* line reports it, the cloudwatch buffer is empty and no tail loop exists
C18_Witness ==
  /\ awsClient
  /\ activeLogGroup = "g2"
  /\ status = StatusNoStreams
  /\ Buffer("cloudwatch") = <<>>
  /\ ~tailingActive
  /\ \A t \in TailIds : tails[t].cpc = "none"
  /\ \A l \in LoadIds : loads[l].pc = "none"

\* C19: the selection or the refresh of the cloudwatch source while no
\* client or no active log group is available starts no load and no tail,
\* and the status line that results reports the missing client
C19_MissingClientReported ==
  [][(/\ ~CanLoad(activeLogGroup)
      /\ selectedSource' = "cloudwatch"
      /\ onSourceSelected \/ Refresh)
       => /\ status' = StatusNoGroupOrClient
          /\ loads' = loads
          /\ tails' = tails]_vars

\* C19 witness: the cloudwatch source was refreshed without a client: no
\* load and no tail exist and the status line reads "Logs refreshed"
C19_Witness ==
  /\ ~awsClient
  /\ selectedSource = "cloudwatch"
  /\ status = StatusRefreshed
  /\ \A l \in LoadIds : loads[l].pc = "none"
  /\ \A t \in TailIds : tails[t].cpc = "none"

\* C20: the status line never shows the error of a fetch that was aborted
\* by the cancellation of its tail
C20_CancelNotAnError == status # StatusTailingError(ErrCanceled)

\* C20 witness: the tail was cancelled (by Refresh or Cleanup) and the
\* status line shows the error of the fetch the cancellation aborted
C20_Witness ==
  /\ status = StatusTailingError(ErrCanceled)
  /\ ctxDone # {}
  /\ \E t \in TailIds : tails[t].cpc # "none"

\* C21: an export that meets no fault of the file system writes one line
\* per entry of the buffer of the selected source, in the order of the
\* buffer: a reader of the file finds as many lines as the buffer has
\* entries, and line i is the line of entry i
C21_ExportLinePerEntry ==
  [][(call' # call /\ call'.op = "export" /\ call'.io.at = "none")
       => /\ Len(ReadLines(call'.file)) = Len(Buffer(selectedSource))
          /\ \A i \in DOMAIN Buffer(selectedSource) :
               ReadLines(call'.file)[i] \o <<10>>
                 = ExportLine(Buffer(selectedSource)[i])]_vars

\* C21 witness: an export without a fault of a buffer of two entries whose
\* file a reader finds more than two lines in
C21_Witness ==
  /\ call.op = "export"
  /\ call.io.at = "none"
  /\ call.source = "app"
  /\ Len(Buffer("app")) = 2
  /\ call.file = ExportText(Buffer("app"))
  /\ Len(ReadLines(call.file)) > 2

\* C22: an export that returns no error has written the line of every
\* entry of the buffer of the selected source to the file
C22_ExportFailsLoudly ==
  [][(call' # call /\ call'.op = "export" /\ call'.err = "")
       => call'.file = ExportText(Buffer(selectedSource))]_vars

\* C22 witness: the last flush of an export failed after no line had got
\* to the file; the export of two entries returned no error
C22_Witness ==
  /\ call.op = "export"
  /\ call.io.at = "flush"
  /\ call.err = ""
  /\ Len(Buffer(call.source)) = 2
  /\ call.file = <<>>

\* C23: a change of the filter text to a simple term that is not blank
\* shows exactly the entries of the buffer of the selected source whose
\* message, level or source holds the term, whatever the case of the
\* letters, and the title counts them: "(k of n)" for k of the n entries
\* of the buffer, k < n
C23_FilterShowsMatches ==
  [][(/\ onFilterChanged
      /\ filterText' # filterText
      /\ ~NoQuery(filterText')
      /\ ~IsQueryString(filterText'))
       => /\ logView' \in SortOldestFirst(
                             Matching(Buffer(selectedSource), filterText'))
          /\ Title(Len(logView'), Len(Entries(logs', filteredLogs')))
               = Title(Len(Matching(Buffer(selectedSource), filterText')),
                       Len(Buffer(selectedSource)))]_vars

\* C23 witness: the filter text is a simple term that one of the two
\* entries of the buffer of the selected source holds, and the view shows
\* no entry
C23_Witness ==
  /\ ~NoQuery(filterText)
  /\ ~IsQueryString(filterText)
  /\ Len(Buffer(selectedSource)) = 2
  /\ Len(Matching(Buffer(selectedSource), filterText)) = 1
  /\ logView = <<>>

\* C24: a text goes to performSearch, and buildSearchQuery builds a
\* query-string query of it, exactly when it holds a white space character,
\* a double quote or the wildcard "*"; the two functions agree on every
\* text that is not blank; buildSearchQuery returns nil exactly for the
\* empty and the blank texts
C24_SameClassification ==
  call.op = "classified" =>
    LET structured == \E i \in DOMAIN call.text :
                        call.text[i] \in WhiteSpace \cup {34, 42}
        blank == \A i \in DOMAIN call.text : call.text[i] \in WhiteSpace
    IN  /\ (call.handler = "performSearch") = structured
        /\ ~blank => ((call.handler = "performSearch")
                        = (call.query = "QueryStringQuery"))
        /\ (call.query = "nil") = blank

\* C24 witness: the text "a<tab>a" holds a white space character and was
\* handled as a simple term by both functions
C24_Witness ==
  /\ call.op = "classified"
  /\ call.text = <<97, 9, 97>>
  /\ call.handler = "applyFilter"
  /\ call.query = "DisjunctionQuery"

SelectInit ==
  /\ Init
  /\ Observed
  /\ ~searchIndex.open
  /\ DOMAIN appended = {}
  /\ DOMAIN remote = {1}
  /\ LoadIds = {1}
  /\ TailIds = {1}

SelectNext ==
  \/ SelectItem
  \/ ShowLambdaLogGroup
  \/ SetAWSClient
  \/ \E l \in LoadIds : LoadFetch(l)
  \/ \E l \in LoadIds : LoadStore(l)
  \/ \E l \in LoadIds : LoadDisplay(l)
  \/ \E l \in LoadIds : LoadReport(l)
  \/ \E l \in LoadIds : LoadStartTailing(l)
  \/ \E t \in TailIds : ConsumerStart(t)
  \/ \E t \in TailIds : ConsumerEvent(t)
  \/ \E t \in TailIds : ProducerFetch(t)
  \/ \E t \in TailIds : ProducerSend(t)
  \/ \E t \in TailIds : ProducerTick(t)
  \/ RunQueuedUpdate

SelectSpec == SelectInit /\ [][SelectNext]_vars

\* C26: selecting a disabled source is a no-op.  A call of the list
\* handler for an item whose source is not enabled leaves the selected
\* source, every source buffer, the Loadings and the tail state as they
\* are, writes no status and raises no error
C26_DisabledIsNoOp ==
  [][(SelectItem /\ ~logSources[call'.index].Enabled)
       => /\ selectedSource' = selectedSource
          /\ logs' = logs
          /\ loads' = loads
          /\ UNCHANGED tailVars
          /\ status' = status
          /\ ~panicked']_vars

\* C26 witness: the last call of the list handler was for a disabled
\* source while the CloudWatch source was selected and its tail ran
C26_Witness ==
  /\ call.op = "select"
  /\ ~logSources[call.index].Enabled
  /\ selectedSource = "cloudwatch"
  /\ tailingActive
  /\ \E t \in TailIds : tails[t].cpc = "loop"

\* C27: during Tailing every stream handed to the tail is tracked, so that
\* every tick polls it with its last-known token, also after a fetch of
\* the stream failed; and the token of a stream changes only when a fetch
\* has returned and all its events were handed to the consumer
C27_EveryStreamPolled ==
  [][\A t \in TailIds :
       /\ tails'[t].ppc \in {"tick", "poll"}
            => Range(tails'[t].streams) \subseteq DOMAIN tails'[t].tokens
       /\ (tails[t].ppc \in {"init", "poll"}
             /\ tails'[t].ppc \in {"init", "poll", "tick"})
            => \A s \in DOMAIN tails'[t].tokens :
                 (s \notin DOMAIN tails[t].tokens
                    \/ tails'[t].tokens[s] # tails[t].tokens[s])
                   => /\ s = tails[t].streams[tails[t].i]
                      /\ tails'[t].out = <<>>
                      /\ Len(tails[t].out) <= 1
                      /\ Len(tails'[t].errorChan) = Len(tails[t].errorChan)
                      /\ tails'[t].tokens[s] =
                           IF tails[t].out = <<>>
                           THEN ProducerFetchResult(tails[t]).nextForwardToken
                           ELSE tails[t].next]_vars

\* C27 witness: the first fetch of one of two streams failed, the tail has
\* reached its poll loop and the stream has no token: the ticks poll the
\* other stream only
C27_Witness ==
  \E t \in TailIds :
    /\ tails[t].ppc = "tick"
    /\ Len(tails[t].streams) = 2
    /\ Cardinality(DOMAIN tails[t].tokens) = 1
    /\ ErrBackend \in Range(tails[t].errorChan)

(***************************************************************************)
(* CancelSpec: the Lambda log view of a group of one stream whose fetches  *)
(* may fail, ended by Cleanup: one Loading, one tail loop, the search      *)
(* index unavailable and the outputs left out.  CancelFairSpec adds the    *)
(* scheduling of the goroutines: a goroutine that can take a step takes    *)
(* one, a select whose ctx.Done() case is ready again and again takes it   *)
(* at some time, and the event loop of the application runs its queue.     *)
(***************************************************************************)
CancelInit ==
  /\ Init
  /\ ~Observed
  /\ ~searchIndex.open
  /\ DOMAIN appended = {}
  /\ DOMAIN remote = {1}
  /\ LoadIds = {1}
  /\ TailIds = {1}

CancelNext ==
  \/ ShowLambdaLogGroup
  \/ SetAWSClient
  \/ Cleanup
  \/ \E l \in LoadIds : LoadFetch(l)
  \/ \E l \in LoadIds : LoadStore(l)
  \/ \E l \in LoadIds : LoadDisplay(l)
  \/ \E l \in LoadIds : LoadReport(l)
  \/ \E l \in LoadIds : LoadStartTailing(l)
  \/ \E t \in TailIds : ConsumerStart(t)
  \/ \E t \in TailIds : ConsumerDone(t)
  \/ \E t \in TailIds : ConsumerEvent(t)
  \/ \E t \in TailIds : ConsumerError(t)
  \/ \E t \in TailIds : ProducerFetch(t)
  \/ \E t \in TailIds : ProducerFetchFails(t)
  \/ \E t \in TailIds : ProducerSend(t)
  \/ \E t \in TailIds : ProducerTick(t)
  \/ \E s \in AllStreams : RemoteAppend(s)
  \/ RunQueuedUpdate

CancelSpec == CancelInit /\ [][CancelNext]_vars

\* the producer returns: a ctx.Done() case of one of its selects is taken
ProducerReturns(t) ==
  /\ ProducerTick(t) \/ ProducerSend(t)
  /\ tails'[t].ppc = "done"

CancelFairness ==
  /\ WF_vars(RunQueuedUpdate)
  /\ \A l \in {1} :
       /\ WF_vars(LoadFetch(l))
       /\ WF_vars(LoadStore(l))
       /\ WF_vars(LoadDisplay(l))
       /\ WF_vars(LoadReport(l))
       /\ WF_vars(LoadStartTailing(l))
  /\ \A t \in {1} :
       /\ WF_vars(ConsumerStart(t))
       /\ WF_vars(ConsumerDone(t) \/ ConsumerEvent(t) \/ ConsumerError(t))
       /\ SF_vars(ConsumerDone(t))
       /\ WF_vars(ProducerFetch(t) \/ ProducerFetchFails(t))
       /\ WF_vars(ProducerSend(t))
       /\ WF_vars(ProducerTick(t))
       /\ SF_vars(ProducerReturns(t))

CancelFairSpec == CancelSpec /\ CancelFairness

\* C28: after the cancellation signal has fired the tail producer always
\* terminates and closes its channels: a producer that runs with a
\* cancelled context returns at some time
C28_ProducerTerminates ==
  \A t \in {1} :
    (tails[t].ppc \in {"init", "poll", "tick"} /\ tails[t].pctx \in ctxDone)
      ~> (tails[t].ppc = "done")

\* C28 witness: the context is cancelled, the consumer loop has returned,
\* the error channel is full of an error nobody received and the producer
\* is at the fetch of a stream, which the cancelled context makes fail
C28_Witness ==
  \E t \in TailIds :
    /\ tails[t].pctx \in ctxDone
    /\ tails[t].cpc = "done"
    /\ Len(tails[t].errorChan) = ErrorChanCap
    /\ tails[t].ppc = "poll"
    /\ tails[t].out = <<>>
    /\ ~Untracked(tails[t])
    /\ ~tails[t].closed

\* C29: every entry the tail consumer appends is an event the remote
\* fetcher delivered, also after the producer has closed its channels: no
\* entry queued for or held by the CloudWatch buffer has an empty message
\* or a message no stream holds, no status closure reports a nil error and
\* the closure of an error never fails
C29_OnlyDeliveredEvents ==
  LET Delivered == {LogEvent(s, k).Message :
                      s \in DOMAIN remote, k \in 1..MaxRemoteEvents}
  IN  /\ \A i \in DOMAIN uiQueue :
           /\ uiQueue[i].kind = "add" => uiQueue[i].entry.Message \in Delivered
           /\ uiQueue[i].kind = "status" => uiQueue[i].err # "nil"
      /\ "cloudwatch" \in DOMAIN logs
           => \A i \in DOMAIN logs["cloudwatch"] :
                logs["cloudwatch"][i].Message \in Delivered
      /\ ~panicked

\* C29 witness: the producer has returned and closed its channels after
\* the cancellation, the consumer loop still runs, and the CloudWatch
\* buffer holds an entry with the empty message of a zero-value event
C29_Witness ==
  /\ ctxDone # {}
  /\ \E t \in TailIds :
       /\ tails[t].closed
       /\ tails[t].cpc = "loop"
       /\ tails[t].eventsChan = <<>>
  /\ "cloudwatch" \in DOMAIN logs
  /\ \E i \in DOMAIN logs["cloudwatch"] :
       logs["cloudwatch"][i].Message = ZeroEvent.Message

(***************************************************************************)
(* renderSimpleHighlight: texts are UTF-8, sequences of bytes; the runes   *)
(* of the model are the letters a, A, k and the Kelvin sign U+212A, which  *)
(* takes three bytes and whose lower case is the letter k.                 *)
(***************************************************************************)
\* runes of a search term given to renderSimpleHighlight
MaxTermLen == 2

KelvinSign == 8490
RuneAlphabet == {97, 65, 107, KelvinSign}

\* the UTF-8 encoding of a rune below U+10000
EncodeRune(r) ==
  IF r < 128 THEN << r >>
  ELSE IF r < 2048 THEN << 192 + (r \div 64), 128 + (r % 64) >>
  ELSE << 224 + (r \div 4096), 128 + ((r \div 64) % 64), 128 + (r % 64) >>

RECURSIVE EncodeRunes(_)
EncodeRunes(runes) ==
  IF runes = <<>> THEN <<>>
  ELSE EncodeRune(Head(runes)) \o EncodeRunes(Tail(runes))

\* the runes of a valid UTF-8 text
RECURSIVE DecodeRunes(_)
DecodeRunes(s) ==
  IF s = <<>> THEN <<>>
  ELSE IF s[1] < 128
       THEN << s[1] >> \o DecodeRunes(Tail(s))
  ELSE IF s[1] < 224
       THEN << (s[1] - 192) * 64 + (s[2] - 128) >>
              \o DecodeRunes(SubSeq(s, 3, Len(s)))
  ELSE << (s[1] - 224) * 4096 + (s[2] - 128) * 64 + (s[3] - 128) >>
         \o DecodeRunes(SubSeq(s, 4, Len(s)))

\* unicode.ToLower
LowerRune(r) ==
  IF r \in 65..90 THEN r + 32
  ELSE IF r = KelvinSign THEN 107
  ELSE r

LowerRunes(runes) == [i \in 1..Len(runes) |-> LowerRune(runes[i])]

\* strings.ToLower of a UTF-8 text: every rune is mapped and encoded again
ToLowerText(s) == EncodeRunes(LowerRunes(DecodeRunes(s)))

\* strings.Index(s, substr): the offset of the first occurrence, or -1
Index(s, substr) ==
  LET at == {i \in 0..(Len(s) - Len(substr)) :
               SubSeq(s, i + 1, i + Len(substr)) = substr}
  IN  IF at = {} THEN -1
      ELSE CHOOSE i \in at : \A j \in at : i <= j

\* "[#ffff00::b]" and "[-]"
HighlightOpen == << 91, 35, 102, 102, 102, 102, 48, 48, 58, 58, 98, 93 >>
HighlightClose == << 91, 45, 93 >>

\* the call renderSimpleHighlight(text, searchTerm) before its loop
HighlightCall(text, searchTerm) ==
  [op |-> "highlight", text |-> text, term |-> searchTerm,
   start |-> 0, result |-> <<>>]

\* a slice expression s[from:to] out of range: the call ends in a panic
HighlightPanic == [op |-> "panic", text |-> call.text, term |-> call.term]

\* one pass of the for loop of renderSimpleHighlight
renderSimpleHighlight ==
  /\ call.op = "highlight"
  /\ LET text == call.text
         start == call.start
         lowerText == ToLowerText(text)
         lowerSearch == ToLowerText(call.term)
     IN  IF start > Len(lowerText)
         THEN call' = HighlightPanic
         ELSE LET index == Index(SubSeq(lowerText, start + 1, Len(lowerText)),
                                 lowerSearch)
                  matchStart == start + index
                  matchEnd == matchStart + Len(call.term)
              IN  IF index = -1
                  THEN IF start > Len(text)
                       THEN call' = HighlightPanic
                       ELSE call' = [op |-> "highlighted", text |-> text,
                                     term |-> call.term,
                                     result |-> call.result
                                       \o SubSeq(text, start + 1, Len(text))]
                  ELSE IF matchEnd > Len(text)
                       THEN call' = HighlightPanic
                       ELSE call' = [call EXCEPT
                              !.start = matchEnd,
                              !.result = @ \o SubSeq(text, start + 1, matchStart)
                                           \o HighlightOpen
                                           \o SubSeq(text, matchStart + 1, matchEnd)
                                           \o HighlightClose]
  /\ UNCHANGED tabVars

\* the texts of up to n runes of the alphabet, encoded
EncodedTexts(n) == {EncodeRunes(runes) : runes \in TextsOver(RuneAlphabet, n)}

(***************************************************************************)
(* HighlightSpec: renderSimpleHighlight on every text of up to MaxTextLen  *)
(* runes and every search term of one to MaxTermLen runes.                 *)
(***************************************************************************)
HighlightInit ==
  /\ FreshTab
  /\ call \in {HighlightCall(text, term) :
                 text \in EncodedTexts(MaxTextLen),
                 term \in EncodedTexts(MaxTermLen) \ {<<>>}}

HighlightNext == renderSimpleHighlight

HighlightSpec == HighlightInit /\ [][HighlightNext]_vars

\* the text with every non-overlapping occurrence of the term, compared
\* rune by rune without regard to case from left to right, in the markers
RECURSIVE Highlighted(_, _)
Highlighted(runes, term) ==
  IF Len(runes) < Len(term) THEN EncodeRunes(runes)
  ELSE IF LowerRunes(SubSeq(runes, 1, Len(term))) = LowerRunes(term)
       THEN HighlightOpen \o EncodeRunes(SubSeq(runes, 1, Len(term)))
              \o HighlightClose
              \o Highlighted(SubSeq(runes, Len(term) + 1, Len(runes)), term)
  ELSE EncodeRune(Head(runes)) \o Highlighted(Tail(runes), term)

\* a text without the markers it holds
RECURSIVE StripMarkers(_)
StripMarkers(s) ==
  IF s = <<>> THEN <<>>
  ELSE IF FirstN(s, Len(HighlightOpen)) = HighlightOpen
       THEN StripMarkers(SubSeq(s, Len(HighlightOpen) + 1, Len(s)))
  ELSE IF FirstN(s, Len(HighlightClose)) = HighlightClose
       THEN StripMarkers(SubSeq(s, Len(HighlightClose) + 1, Len(s)))
  ELSE << Head(s) >> \o StripMarkers(Tail(s))

\* C30: for every text and every non-empty term renderSimpleHighlight
\* terminates: it does not panic and its loop stays inside the text; its
\* result is the text with each non-overlapping case-insensitive
\* occurrence of the term, from left to right, in the highlight markers,
\* in the casing of the text, and without the markers it is the text
C30_HighlightsOccurrences ==
  /\ call.op # "panic"
  /\ call.op = "highlight" => call.start <= Len(call.text)
  /\ call.op = "highlighted"
       => /\ call.result = Highlighted(DecodeRunes(call.text),
                                       DecodeRunes(call.term))
          /\ StripMarkers(call.result) = call.text

\* C30 witness: the call for a text that holds the letter k and a term
\* with the Kelvin sign, whose lower case is shorter than the term, has
\* ended in a panic
C30_Witness ==
  /\ call.op = "panic"
  /\ Len(ToLowerText(call.term)) < Len(call.term)
  /\ Contains(ToLowerText(call.text), ToLowerText(call.term))

=============================================================================
